---- MODULE Spec2Model ----
(***************************************************************************)
(* A model of the audit ledger of compliance_automation/audit_trail_builder *)
(* (class AIAuditTrailBuilder): the list of audit events, the registry of   *)
(* AI systems, the signing key, and the operations on them.                 *)
(*                                                                          *)
(* Strings that the code concatenates before hashing are TLA+ strings and   *)
(* are concatenated with \o, as the f-strings of the code do.  SHA-256 is   *)
(* modelled as a collision-free digest: Sha256(s) is a string that wraps s, *)
(* equal for equal inputs and different for different inputs.               *)
(***************************************************************************)
EXTENDS Integers, Sequences, FiniteSets, TLC

VARIABLES
    audit_events,     \* self.audit_events: the list of AuditEvent records
    system_registry,  \* self.system_registry: system_id -> registration record
    encryption_key,   \* self.encryption_key
    clock,            \* the last value datetime.now() returned
    nextUuid,         \* the number of the next uuid4() drawn
    lastCall,         \* the last API call and what it returned or raised
    tamper,           \* the out-of-band modification of the store, if any
    pc,               \* racing appenders: each thread's position in log_event
    local,            \* racing appenders: each thread's local variables
    requirements,     \* ISO42001GapAnalyzer.requirements: id -> status and gap
    assessment_history \* AIComplianceChecker.assessment_history

vars == <<audit_events, system_registry, encryption_key, clock, nextUuid,
          lastCall, tamper, pc, local, requirements, assessment_history>>

---------------------------------------------------------------------------
(* Bounds of the model *)

\* the largest number of stored events under Spec
MaxEvents == 3
\* the largest value of the clock
MaxClock == 1
\* the largest number of stored events under SpecTamper
MaxTamperEvents == 11

---------------------------------------------------------------------------
(* Enumerations and static configuration *)

\* class EventType: the values of its members
EventType ==
    {"model_training", "model_deployment", "data_processing", "prediction_made",
     "bias_detection", "performance_monitoring", "incident_logged",
     "access_granted", "configuration_changed", "compliance_review"}

\* class ComplianceFramework: the values of its members
ComplianceFramework ==
    {"gdpr", "eu_ai_act", "iso_42001", "nist_ai_rmf", "sarbanes_oxley", "basel_iii"}

\* the risk tiers get_audit_statistics enumerates
RiskLevels == {"low", "medium", "high", "critical"}

\* Python's None, as str() renders it
None == "None"

\* _load_compliance_rules: framework -> required event types ({} when the
\* framework has no rule, as rules.get("required_events", []) gives)
RequiredEvents(framework) ==
    CASE framework = "gdpr"      -> {"data_processing", "access_granted"}
      [] framework = "eu_ai_act" -> {"model_training", "bias_detection",
                                     "performance_monitoring"}
      [] framework = "iso_42001" -> {"compliance_review", "incident_logged"}
      [] OTHER                   -> {}

\* audit_events[-10:]: the size of the sample get_audit_statistics verifies
SampleSize == 10

---------------------------------------------------------------------------
(* Strings and digests *)

Digit(d) ==
    CASE d = 0 -> "0" [] d = 1 -> "1" [] d = 2 -> "2" [] d = 3 -> "3"
      [] d = 4 -> "4" [] d = 5 -> "5" [] d = 6 -> "6" [] d = 7 -> "7"
      [] d = 8 -> "8" [] d = 9 -> "9"

\* datetime.isoformat(): a fixed-width rendering of an instant, whose string
\* order is the order of the instants
IsoFormat(t) == "T" \o Digit((t \div 10) % 10) \o Digit(t % 10)

\* str(uuid.uuid4()): a fixed-width identifier; the n-th draw differs from
\* every earlier one
Uuid(n) == "E" \o Digit((n \div 10) % 10) \o Digit(n % 10)

\* hashlib.sha256(s.encode()).hexdigest()
Sha256(s) == "sha256(" \o s \o ")"

\* _generate_encryption_key, called at instant t
GenerateEncryptionKey(t) == Sha256("audit_key_" \o IsoFormat(t))

\* whether x is an element of the list xs
InList(x, xs) == \E i \in 1..Len(xs) : xs[i] = x

\* the elements of the list xs
Elems(xs) == {xs[i] : i \in 1..Len(xs)}

---------------------------------------------------------------------------
(* AuditEvent and the two sides of its integrity check *)

\* LogDataString with the system id left out of the hashed string
LogDataStringNoSystem(event_id, timestamp, event_type, system_id, action_description) ==
    event_id \o IsoFormat(timestamp) \o event_type \o action_description

\* log_event: the string the data hash is taken of
LogDataString(event_id, timestamp, event_type, system_id, action_description) ==
    event_id \o IsoFormat(timestamp) \o event_type \o system_id \o action_description

\* LogSignature with the key put before the hash
LogSignatureKeyFirst(data_hash, key) == Sha256(key \o data_hash)

\* log_event: the verification signature of a data hash
LogSignature(data_hash, key) == Sha256(data_hash \o key)

\* log_event: the metadata argument, {} when it is not given (None)
Metadata(d) == IF "metadata" \in DOMAIN d THEN d.metadata ELSE <<>>

\* log_event: the AuditEvent it builds from its arguments d, the uuid drawn
\* and the instant read
NewAuditEvent(d, event_id, timestamp, key) ==
    LET data_hash == Sha256(LogDataString(event_id, timestamp, d.event_type,
                                          d.system_id, d.action_description))
    IN  [event_id               |-> event_id,
         timestamp              |-> timestamp,
         event_type             |-> d.event_type,
         system_id              |-> d.system_id,
         user_id                |-> d.user_id,
         action_description     |-> d.action_description,
         data_hash              |-> data_hash,
         compliance_frameworks  |-> d.compliance_frameworks,
         risk_level             |-> d.risk_level,
         business_impact        |-> d.business_impact,
         metadata               |-> Metadata(d),
         verification_signature |-> LogSignature(data_hash, key)]

\* StoreEvent inserting at the head of the list
StoreEventFront(events, e) == <<e>> \o events

\* log_event: self.audit_events.append(audit_event)
StoreEvent(events, e) == Append(events, e)

\* log_event: the registry after the event of system_id was stored
CountEvent(registry, system_id) ==
    IF system_id \in DOMAIN registry
    THEN [registry EXCEPT ![system_id].audit_events_count = @ + 1]
    ELSE registry

\* register_ai_system: the registry with the entry of system_id (re)written
RegistryEntry(registry, system_id, system_name, risk_level, frameworks, date) ==
    [s \in DOMAIN registry \cup {system_id} |->
        IF s = system_id
        THEN [name                  |-> system_name,
              risk_level            |-> risk_level,
              compliance_frameworks |-> frameworks,
              registration_date     |-> date,
              audit_events_count    |-> 0]
        ELSE registry[s]]

\* register_ai_system: the arguments of the log_event call it makes
RegistrationDraft(system_id, system_name, risk_level, frameworks) ==
    [event_type            |-> "configuration_changed",
     system_id             |-> system_id,
     user_id               |-> "system_admin",
     action_description    |-> "AI system '" \o system_name
                               \o "' registered for audit tracking",
     compliance_frameworks |-> frameworks,
     risk_level            |-> risk_level,
     business_impact       |-> "high",
     metadata              |-> [registration |-> TRUE, system_name |-> system_name]]

\* VerifyDataString with the description left out of the hashed string
VerifyDataStringNoDescription(event) ==
    event.event_id \o IsoFormat(event.timestamp) \o event.event_type
        \o event.system_id

\* verify_audit_integrity: the string the expected hash is taken of
VerifyDataString(event) ==
    event.event_id \o IsoFormat(event.timestamp) \o event.event_type
        \o event.system_id \o event.action_description

\* verify_audit_integrity: the expected signature of a stored event
ExpectedSignature(event, key) == Sha256(event.data_hash \o key)

\* verify_audit_integrity: next(e for e in events if e.event_id == event_id),
\* as the position of the event, 0 for None
FindEvent(events, event_id) ==
    IF \E i \in 1..Len(events) : events[i].event_id = event_id
    THEN CHOOSE i \in 1..Len(events) :
            /\ events[i].event_id = event_id
            /\ \A j \in 1..(i - 1) : events[j].event_id # event_id
    ELSE 0

\* VerifyAuditIntegrity checking the recomputed hash where the stored one is meant
VerifyAuditIntegrityRecomputed(events, key, event_id) ==
    LET i == FindEvent(events, event_id) IN
    IF i = 0
    THEN [verified |-> FALSE, error |-> "Event not found"]
    ELSE LET event == events[i]
             expected_hash == Sha256(VerifyDataString(event))
             hash_verified == expected_hash = expected_hash
             signature_verified ==
                 event.verification_signature = Sha256(expected_hash \o key)
         IN  [verified |-> hash_verified /\ signature_verified,
              hash_verified |-> hash_verified,
              signature_verified |-> signature_verified,
              event_timestamp |-> event.timestamp]

\* verify_audit_integrity(event_id) on the store `events` with signing key `key`
VerifyAuditIntegrity(events, key, event_id) ==
    LET i == FindEvent(events, event_id) IN
    IF i = 0
    THEN [verified |-> FALSE, error |-> "Event not found"]
    ELSE LET event == events[i]
             hash_verified == event.data_hash = Sha256(VerifyDataString(event))
             signature_verified ==
                 event.verification_signature = ExpectedSignature(event, key)
         IN  [verified |-> hash_verified /\ signature_verified,
              hash_verified |-> hash_verified,
              signature_verified |-> signature_verified,
              event_timestamp |-> event.timestamp]

---------------------------------------------------------------------------
(* Inputs *)

\* the instants a call of datetime.now() may return when the last one
\* returned c: time does not run backwards
NowChoices(c) == {t \in {c, c + 1} : t <= MaxClock}

\* arguments of log_event: two well-formed calls (with metadata), one with a
\* risk tier outside RiskLevels, one with a framework that is no
\* ComplianceFramework and no user, one whose event_type is a plain string and
\* no EventType member
DraftGdpr ==
    [event_type |-> "data_processing", system_id |-> "s1", user_id |-> "u1",
     action_description |-> "daily run", compliance_frameworks |-> <<"gdpr">>,
     risk_level |-> "high", business_impact |-> "medium",
     metadata |-> [records_processed |-> 125]]
DraftBias ==
    [event_type |-> "bias_detection", system_id |-> "s2", user_id |-> "u2",
     action_description |-> "scan", compliance_frameworks |-> <<"eu_ai_act", "gdpr">>,
     risk_level |-> "low", business_impact |-> "high",
     metadata |-> [bias_score |-> 2]]
DraftBadRisk ==
    [event_type |-> "model_training", system_id |-> "s1", user_id |-> "u1",
     action_description |-> "retrained", compliance_frameworks |-> <<"eu_ai_act">>,
     risk_level |-> "bogus", business_impact |-> "critical"]
DraftBadFramework ==
    [event_type |-> "access_granted", system_id |-> "s2", user_id |-> None,
     action_description |-> "login", compliance_frameworks |-> <<"not_a_framework">>,
     risk_level |-> "medium", business_impact |-> "low"]
DraftBadType ==
    [event_type |-> "not_an_event_type", system_id |-> "s1", user_id |-> "u1",
     action_description |-> "daily run", compliance_frameworks |-> <<"gdpr">>,
     risk_level |-> "high", business_impact |-> "medium"]

\* the drafts of the single caller
Drafts == {DraftGdpr, DraftBadRisk, DraftBadFramework, DraftBadType}

\* arguments of register_ai_system
Registrations ==
    { [system_id |-> "s1", system_name |-> "Fraud", risk_level |-> "high",
       compliance_frameworks |-> <<"gdpr", "eu_ai_act">>],
      [system_id |-> "s2", system_name |-> "Reco", risk_level |-> "bogus",
       compliance_frameworks |-> <<"gdpr">>] }

---------------------------------------------------------------------------
(* The state after AIAuditTrailBuilder() *)

Threads == {"A", "B"}

---------------------------------------------------------------------------
(* Arithmetic of the scoring code *)

\* The scoring classes compute with Python floats.  A float is modelled as an
\* exact fraction [num, den] in lowest terms with den > 0; parameters that the
\* code writes as decimal literals (weights, accuracies, bias scores) are
\* given in hundredths.

Abs(x) == IF x < 0 THEN -x ELSE x

RECURSIVE Gcd(_, _)
Gcd(a, b) == IF b = 0 THEN a ELSE Gcd(b, a % b)

Lcm(a, b) == (a \div Gcd(a, b)) * b

\* the float n / d, for d > 0
Rat(n, d) ==
    LET g == Gcd(Abs(n), d) IN [num |-> n \div g, den |-> d \div g]

\* x + y
RatAdd(x, y) ==
    LET l == Lcm(x.den, y.den)
    IN  Rat(x.num * (l \div x.den) + y.num * (l \div y.den), l)

\* x - y
RatSub(x, y) == RatAdd(x, [num |-> -y.num, den |-> y.den])

\* x * y
RatMul(x, y) ==
    LET g1 == Gcd(Abs(x.num), y.den)
        g2 == Gcd(Abs(y.num), x.den)
    IN  Rat((x.num \div g1) * (y.num \div g2), (x.den \div g2) * (y.den \div g1))

\* x / y, for y > 0
RatDiv(x, y) == RatMul(x, [num |-> y.den, den |-> y.num])

\* x <= y, decided on the integer parts and then on the fractional parts, so
\* that no product of a numerator and a denominator is formed
RECURSIVE RatLeq(_, _)
RatLeq(x, y) ==
    LET qx == x.num \div x.den
        qy == y.num \div y.den
        rx == x.num % x.den
        ry == y.num % y.den
    IN  IF qx # qy THEN qx < qy
        ELSE IF rx = 0 THEN TRUE
        ELSE IF ry = 0 THEN FALSE
        ELSE RatLeq([num |-> y.den, den |-> ry], [num |-> x.den, den |-> rx])

\* x < y
RatLess(x, y) == ~RatLeq(y, x)

\* min(x, y) and max(x, y)
RatMin(x, y) == IF RatLeq(x, y) THEN x ELSE y
RatMax(x, y) == IF RatLeq(x, y) THEN y ELSE x

\* sum(xs[i] for i in I), I a finite set of indices of the function xs
RECURSIVE RatSum(_, _)
RatSum(xs, I) ==
    IF I = {} THEN Rat(0, 1)
    ELSE LET i == CHOOSE j \in I : TRUE
         IN  RatAdd(xs[i], RatSum(xs, I \ {i}))

\* sum(xs[i] for i in I) over integers
RECURSIVE IntSum(_, _)
IntSum(xs, I) ==
    IF I = {} THEN 0
    ELSE LET i == CHOOSE j \in I : TRUE
         IN  xs[i] + IntSum(xs, I \ {i})

---------------------------------------------------------------------------
(* ISO42001GapAnalyzer: the requirements it loads *)

\* class ComplianceStatus of iso_42001_gap_analyzer: the values of its members
GapComplianceStatus ==
    {"fully_compliant", "substantially_compliant", "partially_compliant",
     "non_compliant", "not_assessed"}

\* class RequirementCategory: the values of its members, in definition order
RequirementCategory ==
    <<"organizational_context", "leadership_commitment",
      "planning_risk_management", "support_resources", "operational_controls",
      "performance_evaluation", "continual_improvement">>

\* _load_iso_42001_requirements: the fields of each requirement that the
\* analysis reads and never writes
IsoRequirements ==
    <<[requirement_id |-> "4.1", clause |-> "4.1",
       title |-> "Understanding the Organization and its Context",
       category |-> "organizational_context", implementation_effort |-> "medium"],
      [requirement_id |-> "4.2", clause |-> "4.2",
       title |-> "Understanding the Needs and Expectations of Interested Parties",
       category |-> "organizational_context", implementation_effort |-> "medium"],
      [requirement_id |-> "4.3", clause |-> "4.3",
       title |-> "Determining the Scope of the AI Management System",
       category |-> "organizational_context", implementation_effort |-> "high"],
      [requirement_id |-> "5.1", clause |-> "5.1",
       title |-> "Leadership and Commitment",
       category |-> "leadership_commitment", implementation_effort |-> "critical"],
      [requirement_id |-> "5.2", clause |-> "5.2",
       title |-> "AI Policy",
       category |-> "leadership_commitment", implementation_effort |-> "high"],
      [requirement_id |-> "6.1", clause |-> "6.1",
       title |-> "Actions to Address Risks and Opportunities",
       category |-> "planning_risk_management", implementation_effort |-> "high"],
      [requirement_id |-> "6.2", clause |-> "6.2",
       title |-> "AI Objectives and Planning to Achieve Them",
       category |-> "planning_risk_management", implementation_effort |-> "medium"],
      [requirement_id |-> "7.1", clause |-> "7.1",
       title |-> "Resources",
       category |-> "support_resources", implementation_effort |-> "high"],
      [requirement_id |-> "7.2", clause |-> "7.2",
       title |-> "Competence",
       category |-> "support_resources", implementation_effort |-> "medium"],
      [requirement_id |-> "8.1", clause |-> "8.1",
       title |-> "Operational Planning and Control",
       category |-> "operational_controls", implementation_effort |-> "critical"],
      [requirement_id |-> "9.1", clause |-> "9.1",
       title |-> "Monitoring, Measurement, Analysis and Evaluation",
       category |-> "performance_evaluation", implementation_effort |-> "high"],
      [requirement_id |-> "9.2", clause |-> "9.2",
       title |-> "Internal Audit",
       category |-> "performance_evaluation", implementation_effort |-> "medium"],
      [requirement_id |-> "10.1", clause |-> "10.1",
       title |-> "Continual Improvement",
       category |-> "continual_improvement", implementation_effort |-> "medium"]>>

\* _load_iso_42001_requirements: the fields of each requirement that
\* _update_requirements_status writes, as loaded
LoadIso42001Requirements ==
    [i \in 1..Len(IsoRequirements) |->
        [current_status |-> "not_assessed", gap_description |-> ""]]

Init ==
    /\ audit_events = <<>>
    /\ system_registry = [s \in {} |-> None]
    /\ clock = 0
    /\ encryption_key = GenerateEncryptionKey(0)
    /\ nextUuid = 1
    /\ lastCall = [op |-> "__init__"]
    /\ tamper = [kind |-> "none"]
    /\ pc = [t \in Threads |-> "idle"]
    /\ local = [t \in Threads |-> None]
    /\ requirements = LoadIso42001Requirements
    /\ assessment_history = <<>>

---------------------------------------------------------------------------
(* The operations *)

\* log_event(**d), its now() returning t.  An event_type that is no EventType
\* member has no .value: the call raises before it stores anything.
LogEvent(d, t) ==
    /\ clock' = t
    /\ IF d.event_type \notin EventType
       THEN /\ lastCall' = [op |-> "log_event", args |-> d,
                            raised |-> "AttributeError"]
            /\ UNCHANGED <<audit_events, system_registry, nextUuid>>
       ELSE LET e == NewAuditEvent(d, Uuid(nextUuid), t, encryption_key) IN
            /\ audit_events' = StoreEvent(audit_events, e)
            /\ system_registry' = CountEvent(system_registry, d.system_id)
            /\ nextUuid' = nextUuid + 1
            /\ lastCall' = [op |-> "log_event", args |-> d, raised |-> None,
                            result |-> e.event_id]
    /\ UNCHANGED <<encryption_key, requirements, assessment_history, tamper, pc, local>>

\* register_ai_system(**r): the registry entry is written with the instant t1,
\* then log_event runs with the instant t2
RegisterAISystem(r, t1, t2) ==
    LET d == RegistrationDraft(r.system_id, r.system_name, r.risk_level,
                               r.compliance_frameworks)
        registered == RegistryEntry(system_registry, r.system_id, r.system_name,
                                    r.risk_level, r.compliance_frameworks, t1)
        e == NewAuditEvent(d, Uuid(nextUuid), t2, encryption_key)
    IN  /\ clock' = t2
        /\ audit_events' = StoreEvent(audit_events, e)
        /\ system_registry' = CountEvent(registered, r.system_id)
        /\ nextUuid' = nextUuid + 1
        /\ lastCall' = [op |-> "register_ai_system", args |-> r, raised |-> None]
        /\ UNCHANGED <<encryption_key, requirements, assessment_history, tamper, pc, local>>

---------------------------------------------------------------------------
(* The read-only operations: what each returns.  The instants they read only
   to stamp their result (verification_timestamp, generation_timestamp) are
   left out of the results. *)

\* a date argument that is not given (None)
NoDate == -1

\* timedelta(days=90), in clock units
NinetyDays == 90

\* len([e for e in xs if e.field == value])
CountField(xs, field, value) ==
    Cardinality({i \in 1..Len(xs) : xs[i][field] = value})

\* len([e for e in xs if framework in e.compliance_frameworks])
CountFramework(xs, framework) ==
    Cardinality({i \in 1..Len(xs) : InList(framework, xs[i].compliance_frameworks)})

\* generate_compliance_report: the events of the framework in the period
FilteredEvents(events, framework, start_date, end_date, now) ==
    LET start == IF start_date = NoDate THEN now - NinetyDays ELSE start_date
        end   == IF end_date = NoDate THEN now ELSE end_date
    IN  SelectSeq(events, LAMBDA e :
            /\ InList(framework, e.compliance_frameworks)
            /\ start <= e.timestamp
            /\ e.timestamp <= end)

\* _calculate_compliance_score: the number of events at which frequency_score
\* reaches 1.0
FullFrequency == 100

\* _calculate_compliance_score with the volume of events counted against the
\* score; required_events being
\* rules.get("required_events", [])
CalculateComplianceScoreDiluted(events, required_events) ==
    IF required_events = {} THEN Rat(100, 1)
    ELSE LET logged_types == {events[i].event_type : i \in 1..Len(events)}
             coverage == Rat(Cardinality(required_events \cap logged_types),
                             Cardinality(required_events))
             frequency_score == RatSub(Rat(1, 1),
                    RatMin(Rat(Len(events), FullFrequency), Rat(1, 1)))
         IN  RatMul(RatAdd(RatMul(coverage, Rat(7, 10)),
                           RatMul(frequency_score, Rat(3, 10))),
                    Rat(100, 1))

\* _calculate_compliance_score(events, rules), required_events being
\* rules.get("required_events", [])
CalculateComplianceScore(events, required_events) ==
    IF required_events = {} THEN Rat(100, 1)
    ELSE LET logged_types == {events[i].event_type : i \in 1..Len(events)}
             coverage == Rat(Cardinality(required_events \cap logged_types),
                             Cardinality(required_events))
             frequency_score == RatMin(Rat(Len(events), FullFrequency), Rat(1, 1))
         IN  RatMul(RatAdd(RatMul(coverage, Rat(7, 10)),
                           RatMul(frequency_score, Rat(3, 10))),
                    Rat(100, 1))

\* generate_compliance_report(framework, start_date, end_date) at instant now
GenerateComplianceReport(events, framework, start_date, end_date, now) ==
    LET filtered_events == FilteredEvents(events, framework, start_date, end_date, now)
        required_events == RequiredEvents(framework)
        logged_event_types == {filtered_events[i].event_type :
                                  i \in 1..Len(filtered_events)}
        missing_events == required_events \ logged_event_types
    IN  [framework |-> framework,
         compliance_summary |->
            [total_audit_events |-> Len(filtered_events),
             high_risk_events |->
                 CountField(filtered_events, "risk_level", "high"),
             systems_audited |->
                 Cardinality({filtered_events[i].system_id :
                                 i \in 1..Len(filtered_events)}),
             required_events_covered |->
                 Cardinality(required_events) - Cardinality(missing_events),
             compliance_score |->
                 CalculateComplianceScore(filtered_events, required_events)],
         event_breakdown |->
            [et \in EventType |-> CountField(filtered_events, "event_type", et)],
         missing_requirements |-> missing_events]

\* export_audit_trail: one event as exported
ExportEvent(e, include_metadata) ==
    IF include_metadata THEN e
    ELSE [f \in DOMAIN e \ {"metadata"} |-> e[f]]

\* export_audit_trail(format_type, include_metadata): the exported data, or the
\* exception raised.  A stored framework that is no ComplianceFramework member
\* has no .value; a registry entry holding ComplianceFramework members (the
\* export puts the registry itself into the data) is not JSON serializable.
ExportAuditTrail(events, registry, key, format_type, include_metadata) ==
    IF \E i \in 1..Len(events) :
          \E f \in Elems(events[i].compliance_frameworks) : f \notin ComplianceFramework
    THEN [raised |-> "AttributeError"]
    ELSE IF \E s \in DOMAIN registry :
               \E f \in Elems(registry[s].compliance_frameworks) : f \in ComplianceFramework
    THEN [raised |-> "TypeError"]
    ELSE [raised |-> None,
          result |->
            [export_metadata |->
                [total_events |-> Len(events),
                 systems_registered |-> Cardinality(DOMAIN registry),
                 export_format |-> format_type,
                 verification_key_hash |-> "first16(" \o Sha256(key) \o ")"],
             system_registry |-> registry,
             audit_events |->
                [i \in 1..Len(events) |-> ExportEvent(events[i], include_metadata)]]]

\* audit_events[-10:]
SampleEvents(events) ==
    SubSeq(events, IF Len(events) > SampleSize THEN Len(events) - SampleSize + 1 ELSE 1,
           Len(events))

\* get_audit_statistics: the "integrity_verified" entry
IntegrityVerified(events, key) ==
    LET sample == SampleEvents(events) IN
    \A i \in 1..Len(sample) :
        VerifyAuditIntegrity(events, key, sample[i].event_id).verified

Min(S) == CHOOSE x \in S : \A y \in S : x <= y
Max(S) == CHOOSE x \in S : \A y \in S : x >= y

\* get_audit_statistics()
GetAuditStatistics(events, registry, key) ==
    IF Len(events) = 0
    THEN [message |-> "No audit events recorded"]
    ELSE [total_events |-> Len(events),
          date_range |->
             [earliest |-> Min({events[i].timestamp : i \in 1..Len(events)}),
              latest   |-> Max({events[i].timestamp : i \in 1..Len(events)})],
          event_type_distribution |->
             [et \in EventType |-> CountField(events, "event_type", et)],
          risk_level_distribution |->
             [r \in RiskLevels |-> CountField(events, "risk_level", r)],
          compliance_framework_coverage |->
             [fw \in ComplianceFramework |-> CountFramework(events, fw)],
          systems_tracked |-> Cardinality(DOMAIN registry),
          integrity_verified |-> IntegrityVerified(events, key)]

---------------------------------------------------------------------------
(* The read-only operations as steps of the builder *)

\* verify_audit_integrity(event_id)
VerifyCall(event_id) ==
    /\ lastCall' = [op |-> "verify_audit_integrity", args |-> event_id,
                    raised |-> None,
                    result |-> VerifyAuditIntegrity(audit_events, encryption_key,
                                                    event_id)]
    /\ UNCHANGED <<audit_events, system_registry, encryption_key, requirements, assessment_history, clock,
                   nextUuid, tamper, pc, local>>

\* generate_compliance_report(framework, start_date, end_date)
ReportCall(framework, start_date, end_date) ==
    /\ lastCall' = [op |-> "generate_compliance_report",
                    args |-> <<framework, start_date, end_date>>,
                    raised |-> None,
                    result |-> GenerateComplianceReport(audit_events, framework,
                                   start_date, end_date, clock)]
    /\ UNCHANGED <<audit_events, system_registry, encryption_key, requirements, assessment_history, clock,
                   nextUuid, tamper, pc, local>>

\* ExportCall converting the stored events themselves instead of copies
ExportCallInPlace(format_type, include_metadata) ==
    /\ lastCall' = [op |-> "export_audit_trail",
                    args |-> <<format_type, include_metadata>>]
                   @@ ExportAuditTrail(audit_events, system_registry,
                                       encryption_key, format_type, include_metadata)
    /\ audit_events' = [i \in 1..Len(audit_events) |->
                            ExportEvent(audit_events[i], include_metadata)]
    /\ UNCHANGED <<system_registry, encryption_key, requirements, assessment_history, clock,
                   nextUuid, tamper, pc, local>>

\* export_audit_trail(format_type, include_metadata)
ExportCall(format_type, include_metadata) ==
    /\ lastCall' = [op |-> "export_audit_trail",
                    args |-> <<format_type, include_metadata>>]
                   @@ ExportAuditTrail(audit_events, system_registry,
                                       encryption_key, format_type, include_metadata)
    /\ UNCHANGED <<audit_events, system_registry, encryption_key, requirements, assessment_history, clock,
                   nextUuid, tamper, pc, local>>

\* get_audit_statistics()
StatisticsCall ==
    /\ lastCall' = [op |-> "get_audit_statistics", args |-> <<>>,
                    raised |-> None,
                    result |-> GetAuditStatistics(audit_events, system_registry,
                                                  encryption_key)]
    /\ UNCHANGED <<audit_events, system_registry, encryption_key, requirements, assessment_history, clock,
                   nextUuid, tamper, pc, local>>

\* the event ids a caller asks about: those stored, and one never issued
EventIdInputs == {audit_events[i].event_id : i \in 1..Len(audit_events)} \cup {Uuid(0)}

\* the frameworks reported on: one with rules, one without
ReportFrameworks == {"gdpr", "sarbanes_oxley"}

\* the periods reported on: the default one (the last 90 days)
ReportPeriods == {<<NoDate, NoDate>>}

---------------------------------------------------------------------------
(* The builder used through its API by one caller *)

Next ==
    \/ \E d \in Drafts, t \in NowChoices(clock) :
          Len(audit_events) < MaxEvents /\ LogEvent(d, t)
    \/ \E r \in Registrations, t1 \in NowChoices(clock) : \E t2 \in NowChoices(t1) :
          Len(audit_events) < MaxEvents /\ RegisterAISystem(r, t1, t2)
    \/ \E id \in EventIdInputs : VerifyCall(id)
    \/ \E fw \in ReportFrameworks, p \in ReportPeriods : ReportCall(fw, p[1], p[2])
    \/ \E inc \in BOOLEAN : ExportCall("json", inc)
    \/ StatisticsCall

Spec == Init /\ [][Next]_vars

---------------------------------------------------------------------------
(* Claims about the builder used through its API *)

\* the position of the stored event lastCall asked about (0: none)
AskedPosition == FindEvent(audit_events, lastCall.args)

\* C1: every event stored by log_event, directly or through
\* register_ai_system, verifies after any further calls: for its event_id
\* verify_audit_integrity returns hash_verified, signature_verified and
\* verified all true, and so did the last verify call on a stored event.
C1_AppendedEventsVerify ==
    /\ \A i \in 1..Len(audit_events) :
          LET r == VerifyAuditIntegrity(audit_events, encryption_key,
                                        audit_events[i].event_id)
          IN  /\ "error" \notin DOMAIN r
              /\ r.hash_verified
              /\ r.signature_verified
              /\ r.verified
    /\ (lastCall.op = "verify_audit_integrity" /\ AskedPosition # 0)
          => lastCall.result.verified

\* C1's case: the first event was verified after later appends, one of them
\* made by register_ai_system
C1_Witness ==
    /\ lastCall.op = "verify_audit_integrity"
    /\ AskedPosition = 1
    /\ Len(audit_events) >= 2
    /\ \E i \in 2..Len(audit_events) :
          audit_events[i].event_type = "configuration_changed"
    /\ lastCall.result.hash_verified
    /\ lastCall.result.signature_verified

\* C2: the ledger is append-only: every step of the API leaves each stored
\* event at its position with all fields unchanged, and the list grows by at
\* most one event, at its end.
C2_AppendOnly ==
    [][ /\ Len(audit_events') >= Len(audit_events)
        /\ Len(audit_events') <= Len(audit_events) + 1
        /\ \A i \in 1..Len(audit_events) : audit_events'[i] = audit_events[i]
      ]_vars

\* C2's case: an event was appended behind two stored ones
C2_Witness ==
    /\ Len(audit_events) >= 3
    /\ lastCall.op = "log_event"
    /\ lastCall.raised = None
    /\ audit_events[Len(audit_events)].event_id = lastCall.result

ReadOnlyOps == {"verify_audit_integrity", "generate_compliance_report",
                "export_audit_trail", "get_audit_statistics"}

\* C3: verify_audit_integrity, generate_compliance_report, export_audit_trail
\* and get_audit_statistics leave audit_events, system_registry and the
\* signing key unchanged for every argument; verify_audit_integrity of an
\* unknown event_id returns verified = false with error "Event not found".
C3_ReadOnly ==
    [][ lastCall'.op \in ReadOnlyOps =>
          /\ UNCHANGED <<audit_events, system_registry, encryption_key>>
          /\ (lastCall'.op = "verify_audit_integrity"
              /\ FindEvent(audit_events, lastCall'.args) = 0)
                => /\ DOMAIN lastCall'.result = {"verified", "error"}
                   /\ lastCall'.result.verified = FALSE
                   /\ lastCall'.result.error = "Event not found"
      ]_vars

\* C3's case: an unknown event_id was asked about on a non-empty ledger with
\* a registered system
C3_Witness ==
    /\ lastCall.op = "verify_audit_integrity"
    /\ AskedPosition = 0
    /\ "error" \in DOMAIN lastCall.result
    /\ Len(audit_events) >= 1
    /\ DOMAIN system_registry # {}

\* the declared tiers of risk_level and business_impact
Tiers == RiskLevels

\* a draft with every required field present and every enumerated field
\* inside its enumeration
ValidDraft(d) ==
    /\ d.event_type \in EventType
    /\ Elems(d.compliance_frameworks) \subseteq ComplianceFramework
    /\ d.risk_level \in Tiers
    /\ d.business_impact \in Tiers
    /\ None \notin {d.system_id, d.user_id, d.action_description}

\* the arguments of register_ai_system, likewise
ValidRegistration(r) ==
    /\ Elems(r.compliance_frameworks) \subseteq ComplianceFramework
    /\ r.risk_level \in Tiers
    /\ None \notin {r.system_id, r.system_name}

\* C9: an append whose draft has a missing required field or a value outside
\* its enumeration is rejected with an error before any mutation, by log_event
\* and by register_ai_system: audit_events and system_registry stay as they
\* were.
C9_InvalidDraftRejected ==
    [][ (\/ lastCall'.op = "log_event" /\ ~ValidDraft(lastCall'.args)
         \/ lastCall'.op = "register_ai_system" /\ ~ValidRegistration(lastCall'.args))
        => /\ lastCall'.raised # None
           /\ UNCHANGED <<audit_events, system_registry>>
      ]_vars

---------------------------------------------------------------------------
(* The store modified out of band.  AuditEvent is a plain (not frozen)
   dataclass held in a Python list: whoever holds the builder, or the backing
   store, can overwrite a field of a stored event, delete an event or reorder
   the list.  One such modification is made per run. *)

ContentFields ==
    {"event_id", "timestamp", "event_type", "system_id", "user_id",
     "action_description", "metadata", "compliance_frameworks", "risk_level",
     "business_impact"}

EventFields == ContentFields \cup {"data_hash", "verification_signature"}

\* the values a field is overwritten with: none of them is a value log_event
\* stores from the drafts above
TamperValues(f) ==
    CASE f = "event_id"               -> {Uuid(0)}
      [] f = "timestamp"              -> {MaxClock + 1}
      [] f = "event_type"             -> {"incident_logged"}
      [] f = "system_id"              -> {"s9"}
      [] f = "user_id"                -> {"mallory"}
      [] f = "action_description"     -> {"daily ruN", ""}
      [] f = "metadata"               -> {[forged |-> TRUE]}
      [] f = "compliance_frameworks"  -> {<<>>}
      [] f = "risk_level"             -> {"critical"}
      [] f = "business_impact"        -> {"negligible"}
      [] f = "data_hash"              -> {Sha256("forged")}
      [] f = "verification_signature" -> {Sha256("forged")}

\* field f of stored event number i is overwritten with v
TamperField(i, f, v) ==
    /\ tamper.kind = "none"
    /\ i \in 1..Len(audit_events)
    /\ audit_events' = [audit_events EXCEPT ![i] = [@ EXCEPT ![f] = v]]
    /\ tamper' = [kind |-> "field", seq |-> i, field |-> f]
    /\ lastCall' = [op |-> "out_of_band"]
    /\ UNCHANGED <<system_registry, encryption_key, requirements, assessment_history, clock, nextUuid, pc, local>>

\* stored event number i is deleted
TamperRemove(i) ==
    /\ tamper.kind = "none"
    /\ i \in 1..Len(audit_events)
    /\ audit_events' = SubSeq(audit_events, 1, i - 1)
                          \o SubSeq(audit_events, i + 1, Len(audit_events))
    /\ tamper' = [kind |-> "remove", seq |-> i]
    /\ lastCall' = [op |-> "out_of_band"]
    /\ UNCHANGED <<system_registry, encryption_key, requirements, assessment_history, clock, nextUuid, pc, local>>

\* stored events number i and i + 1 change places
TamperSwap(i) ==
    /\ tamper.kind = "none"
    /\ i \in 1..(Len(audit_events) - 1)
    /\ audit_events' = [audit_events EXCEPT ![i] = audit_events[i + 1],
                                            ![i + 1] = audit_events[i]]
    /\ tamper' = [kind |-> "swap", seq |-> i]
    /\ lastCall' = [op |-> "out_of_band"]
    /\ UNCHANGED <<system_registry, encryption_key, requirements, assessment_history, clock, nextUuid, pc, local>>

\* the drafts appended in the runs with tampering
TamperDrafts == {DraftGdpr}

\* One caller appends events (all within one clock tick), verifies events and
\* asks for the statistics; the store is modified out of band once.
NextTamper ==
    \/ \E d \in TamperDrafts :
          Len(audit_events) < MaxTamperEvents /\ LogEvent(d, clock)
    \/ \E i \in 1..Len(audit_events), f \in EventFields :
          \E v \in TamperValues(f) : TamperField(i, f, v)
    \/ \E i \in 1..Len(audit_events) : TamperRemove(i)
    \/ \E i \in 1..Len(audit_events) : TamperSwap(i)
    \/ \E id \in EventIdInputs : VerifyCall(id)
    \/ StatisticsCall

SpecTamper == Init /\ [][NextTamper]_vars

\* Range verification as a caller of the builder performs it: the events
\* number from_seq to to_seq are verified one by one, in order, with
\* verify_audit_integrity; the result is the sequence number of the first
\* event that does not verify, 0 for a clean range.
VerifyRange(events, key, from_seq, to_seq) ==
    LET diverging == {i \in from_seq..to_seq :
                         ~VerifyAuditIntegrity(events, key, events[i].event_id).verified}
    IN  IF diverging = {} THEN 0 ELSE Min(diverging)

---------------------------------------------------------------------------
(* Claims about tamper evidence *)

\* what verify_audit_integrity returns now for stored event number i
VerifyStored(i) ==
    VerifyAuditIntegrity(audit_events, encryption_key, audit_events[i].event_id)

C6_HashCoversAllFields ==
    (/\ tamper.kind = "field"
     /\ tamper.field \in ContentFields
     /\ lastCall.op = "verify_audit_integrity"
     /\ AskedPosition = tamper.seq)
        => ~lastCall.result.hash_verified

\* the digest an event carries on top of its content hash
ChainHashOf(e) == e.verification_signature

\* whether some verification the builder offers fails in the current state
TamperDetected ==
    \/ \E i \in 1..Len(audit_events) : ~VerifyStored(i).verified
    \/ /\ Len(audit_events) > 0
       /\ ~GetAuditStatistics(audit_events, system_registry,
                              encryption_key).integrity_verified

C10_ViolationSurfaced ==
    (/\ \E i \in 1..Len(audit_events) : ~VerifyStored(i).verified
     /\ lastCall.op = "get_audit_statistics")
        => ~lastCall.result.integrity_verified

---------------------------------------------------------------------------
(* Two threads calling log_event on one builder.  The interpreter runs one
   thread at a time and may switch threads between any two operations on
   shared objects: the list append is one such operation, the read and the
   write of audit_events_count are two. *)

\* the arguments the racing appenders pass
RaceDrafts == {DraftGdpr, DraftBias}

\* log_event, up to the construction of the AuditEvent: thread t draws its
\* uuid, reads the clock and builds the event from d.  `tail` is the length
\* of the ledger at that moment (what the thread would take for the tail).
RaceBegin(t, d, now) ==
    /\ pc[t] = "idle"
    /\ clock' = now
    /\ nextUuid' = nextUuid + 1
    /\ local' = [local EXCEPT ![t] =
                    [event  |-> NewAuditEvent(d, Uuid(nextUuid), now, encryption_key),
                     tail   |-> Len(audit_events),
                     raised |-> None,
                     count  |-> 0]]
    /\ pc' = [pc EXCEPT ![t] = "built"]
    /\ UNCHANGED <<audit_events, system_registry, encryption_key, requirements, assessment_history, lastCall, tamper>>

\* RaceAppend rebuilding the list from the tail the thread saw when it began
RaceAppendStale(t) ==
    /\ pc[t] = "built"
    /\ audit_events' = StoreEvent(SubSeq(audit_events, 1, local[t].tail),
                                  local[t].event)
    /\ pc' = [pc EXCEPT ![t] = "appended"]
    /\ UNCHANGED <<system_registry, encryption_key, requirements, assessment_history, clock, nextUuid, lastCall,
                   tamper, local>>

\* log_event: self.audit_events.append(audit_event), by thread t
RaceAppend(t) ==
    /\ pc[t] = "built"
    /\ audit_events' = StoreEvent(audit_events, local[t].event)
    /\ pc' = [pc EXCEPT ![t] = "appended"]
    /\ UNCHANGED <<system_registry, encryption_key, requirements, assessment_history, clock, nextUuid, lastCall,
                   tamper, local>>

\* log_event: the membership test and the read of audit_events_count, by
\* thread t; an unregistered system ends the call
RaceReadCount(t) ==
    /\ pc[t] = "appended"
    /\ IF local[t].event.system_id \in DOMAIN system_registry
       THEN /\ local' = [local EXCEPT ![t].count =
                           system_registry[local[t].event.system_id].audit_events_count]
            /\ pc' = [pc EXCEPT ![t] = "read"]
       ELSE /\ pc' = [pc EXCEPT ![t] = "done"]
            /\ UNCHANGED local
    /\ UNCHANGED <<audit_events, system_registry, encryption_key, requirements, assessment_history, clock, nextUuid,
                   lastCall, tamper>>

\* log_event: the write of audit_events_count, and the return, by thread t
RaceWriteCount(t) ==
    /\ pc[t] = "read"
    /\ system_registry' =
          [system_registry EXCEPT ![local[t].event.system_id].audit_events_count =
                                      local[t].count + 1]
    /\ pc' = [pc EXCEPT ![t] = "done"]
    /\ UNCHANGED <<audit_events, encryption_key, requirements, assessment_history, clock, nextUuid, lastCall,
                   tamper, local>>

\* Systems are registered, then each thread calls log_event once.
NextRace ==
    \/ \E r \in Registrations, t1 \in NowChoices(clock) : \E t2 \in NowChoices(t1) :
          /\ \A t \in Threads : pc[t] = "idle"
          /\ r.system_id \notin DOMAIN system_registry
          /\ RegisterAISystem(r, t1, t2)
    \/ \E t \in Threads, d \in RaceDrafts, now \in NowChoices(clock) :
          RaceBegin(t, d, now)
    \/ \E t \in Threads : RaceAppend(t)
    \/ \E t \in Threads : RaceReadCount(t)
    \/ \E t \in Threads : RaceWriteCount(t)

SpecRace == Init /\ [][NextRace]_vars

\* the threads whose log_event has begun
Begun == {t \in Threads : pc[t] # "idle"}

\* the threads whose event has been appended
Appended == {t \in Threads : pc[t] \in {"appended", "read", "done"}}

\* both calls have returned, and they raced: both began on the same tail
RacedAndDone ==
    /\ \A t \in Threads : pc[t] = "done"
    /\ \A t, u \in Threads : local[t].tail = local[u].tail

\* the positions of the ledger holding the event of thread t
PositionsOf(t) ==
    {i \in 1..Len(audit_events) : audit_events[i].event_id = local[t].event.event_id}

---------------------------------------------------------------------------
(* RiskScoringEngine (risk_assessment_demo/risk_scoring_engine.py) *)

\* class RiskDimension: the values of its members, in definition order
RiskDimension ==
    <<"technical_risk", "operational_risk", "regulatory_risk", "ethical_risk",
      "business_risk", "security_risk">>

\* _load_risk_factors: the factors of each dimension in library order; weight
\* in hundredths, severity the value of the RiskSeverity member
RiskFactors ==
    [technical_risk |->
        <<[factor_id |-> "model_accuracy", name |-> "Model Accuracy and Performance",
           weight |-> 25, severity |-> 4],
          [factor_id |-> "data_quality", name |-> "Data Quality and Integrity",
           weight |-> 20, severity |-> 4],
          [factor_id |-> "model_complexity",
           name |-> "Model Complexity and Interpretability",
           weight |-> 15, severity |-> 3],
          [factor_id |-> "system_integration",
           name |-> "System Integration and Dependencies",
           weight |-> 15, severity |-> 3]>>,
     operational_risk |->
        <<[factor_id |-> "human_oversight", name |-> "Human Oversight and Control",
           weight |-> 30, severity |-> 5],
          [factor_id |-> "change_management", name |-> "Change Management and Updates",
           weight |-> 20, severity |-> 3],
          [factor_id |-> "incident_response", name |-> "Incident Response Capabilities",
           weight |-> 25, severity |-> 4]>>,
     regulatory_risk |->
        <<[factor_id |-> "compliance_coverage",
           name |-> "Regulatory Compliance Coverage",
           weight |-> 35, severity |-> 5],
          [factor_id |-> "documentation_adequacy",
           name |-> "Documentation and Audit Trail",
           weight |-> 25, severity |-> 4]>>,
     ethical_risk |->
        <<[factor_id |-> "bias_fairness", name |-> "Bias and Fairness",
           weight |-> 40, severity |-> 5],
          [factor_id |-> "transparency", name |-> "Transparency and Explainability",
           weight |-> 30, severity |-> 4]>>,
     business_risk |->
        <<[factor_id |-> "reputation_impact", name |-> "Reputation and Brand Risk",
           weight |-> 30, severity |-> 4],
          [factor_id |-> "financial_impact", name |-> "Financial and Business Impact",
           weight |-> 35, severity |-> 5]>>,
     security_risk |->
        <<[factor_id |-> "adversarial_attacks",
           name |-> "Adversarial Attack Vulnerability",
           weight |-> 30, severity |-> 4],
          [factor_id |-> "data_privacy", name |-> "Data Privacy and Security",
           weight |-> 35, severity |-> 5]>>]

\* _load_dimension_weights, in hundredths
DimensionWeights ==
    [technical_risk |-> 20, operational_risk |-> 15, regulatory_risk |-> 25,
     ethical_risk |-> 20, business_risk |-> 15, security_risk |-> 5]

\* _load_scoring_thresholds
ScoringThresholds == [critical |-> 4, high |-> 3, medium |-> 2, low |-> 1]

\* d.get(key, default) of a dict d
Get(d, key, default) == IF key \in DOMAIN d THEN d[key] ELSE default

\* the empty dict {}; as custom_weights it also stands for None, which the
\* code treats alike ("if custom_weights")
EmptyDict == [k \in {} |-> 0]

\* the defaults of _evaluate_risk_factor, in hundredths: accuracy 0.8 and
\* overall_bias_score 0.5
DefaultAccuracy == 80
DefaultBiasScore == 50

\* the human_oversight evaluator with 'moderate' scored as 'minimal'
EvaluateHumanOversightFlat(oversight_level) ==
    IF oversight_level = "none" THEN 5
    ELSE IF oversight_level \in {"minimal", "moderate"} THEN 4
    ELSE 1

\* _evaluate_risk_factor, the human_oversight branch
EvaluateHumanOversight(oversight_level) ==
    IF oversight_level = "none" THEN 5
    ELSE IF oversight_level = "minimal" THEN 4
    ELSE IF oversight_level = "moderate" THEN 2
    ELSE 1

\* _evaluate_risk_factor(ai_system, factor): the tier, a whole number
EvaluateRiskFactor(ai_system, factor) ==
    LET base_score ==
          IF factor.factor_id = "model_accuracy"
          THEN LET accuracy == Get(Get(ai_system, "performance_metrics", EmptyDict),
                                   "accuracy", DefaultAccuracy)
               IN  IF accuracy < 70 THEN 5 ELSE IF accuracy < 85 THEN 3 ELSE 1
          ELSE IF factor.factor_id = "human_oversight"
          THEN EvaluateHumanOversight(Get(ai_system, "human_oversight", "minimal"))
          ELSE IF factor.factor_id = "compliance_coverage"
          THEN LET compliance_status == Get(ai_system, "compliance_status", "unknown")
               IN  IF compliance_status = "non_compliant" THEN 5
                   ELSE IF compliance_status = "partial" THEN 3
                   ELSE IF compliance_status = "compliant" THEN 1
                   ELSE 4
          ELSE IF factor.factor_id = "bias_fairness"
          THEN LET bias_score == Get(Get(ai_system, "bias_metrics", EmptyDict),
                                     "overall_bias_score", DefaultBiasScore)
               IN  IF bias_score > 80 THEN 5 ELSE IF bias_score > 50 THEN 3 ELSE 1
          ELSE factor.severity
    IN  IF base_score < 1 THEN 1 ELSE IF base_score > 5 THEN 5 ELSE base_score

\* _calculate_dimension_score: the weight it uses for a factor
FactorWeight(factor, custom_weights) ==
    IF DOMAIN custom_weights # {}
    THEN Get(custom_weights, factor.factor_id, factor.weight)
    ELSE factor.weight

\* _calculate_dimension_score: total_weight after the loop
TotalWeight(factors, custom_weights) ==
    IntSum([i \in 1..Len(factors) |-> FactorWeight(factors[i], custom_weights)],
           1..Len(factors))

\* _calculate_dimension_score(ai_system, factors, custom_weights)
CalculateDimensionScore(ai_system, factors, custom_weights) ==
    LET term == [i \in 1..Len(factors) |->
                    EvaluateRiskFactor(ai_system, factors[i])
                      * FactorWeight(factors[i], custom_weights)]
        total_score == IntSum(term, 1..Len(factors))
        total_weight == TotalWeight(factors, custom_weights)
    IN  IF total_weight > 0 THEN Rat(total_score, total_weight) ELSE Rat(0, 1)

\* _calculate_overall_score(dimension_scores)
CalculateOverallScore(dimension_scores) ==
    LET present == {i \in 1..Len(RiskDimension) :
                       RiskDimension[i] \in DOMAIN dimension_scores}
        term == [i \in present |->
                    RatMul(dimension_scores[RiskDimension[i]],
                           Rat(DimensionWeights[RiskDimension[i]], 100))]
        weight == [i \in present |-> DimensionWeights[RiskDimension[i]]]
        total_score == RatSum(term, present)
        total_weight == Rat(IntSum(weight, present), 100)
    IN  IF total_weight.num > 0 THEN RatDiv(total_score, total_weight)
        ELSE Rat(0, 1)

\* _determine_risk_level(score)
DetermineRiskLevel(score) ==
    IF RatLeq(Rat(ScoringThresholds.critical, 1), score) THEN "Critical"
    ELSE IF RatLeq(Rat(ScoringThresholds.high, 1), score) THEN "High"
    ELSE IF RatLeq(Rat(ScoringThresholds.medium, 1), score) THEN "Medium"
    ELSE "Low"

\* the resolution, in parts of one, at which np.var reads the dimension scores
VarResolution == 100

\* np.var(scores): the population variance of the scores[i], i in I, each
\* score taken at the resolution above
NpVar(scores, I) ==
    LET n == Cardinality(I)
        a == [i \in I |-> (scores[i].num * VarResolution) \div scores[i].den]
        sq == [i \in I |-> a[i] * a[i]]
        sum == IntSum(a, I)
    IN  Rat(n * IntSum(sq, I) - sum * sum, n * n * VarResolution * VarResolution)

\* the five inputs that _calculate_confidence looks for
ExpectedFields ==
    <<"performance_metrics", "compliance_status", "human_oversight",
      "bias_metrics", "data_types">>

\* _calculate_confidence: data_quality_factors[i], as 1 or 0
DataQualityFactor(ai_system, i) ==
    IF ExpectedFields[i] = "data_types"
    THEN IF Len(Get(ai_system, "data_types", <<>>)) > 0 THEN 1 ELSE 0
    ELSE IF ExpectedFields[i] \in DOMAIN ai_system THEN 1 ELSE 0

\* _calculate_confidence with the fields that are missing counted
CalculateConfidenceMissing(ai_system, dimension_scores) ==
    Rat(Cardinality({i \in 1..Len(ExpectedFields) :
                        DataQualityFactor(ai_system, i) = 0}) + 3, 10)

\* _calculate_confidence(ai_system, dimension_scores)
CalculateConfidence(ai_system, dimension_scores) ==
    LET factor == [i \in 1..Len(ExpectedFields) |-> DataQualityFactor(ai_system, i)]
        base_confidence ==
            Rat(IntSum(factor, 1..Len(ExpectedFields)), Len(ExpectedFields))
        scores == DOMAIN dimension_scores
        adjusted ==
            IF Cardinality(scores) > 1
            THEN LET score_variance == NpVar(dimension_scores, scores)
                     consistency_factor ==
                         RatMax(Rat(1, 2),
                                RatSub(Rat(1, 1), RatDiv(score_variance, Rat(5, 1))))
                 IN  RatMul(base_confidence, consistency_factor)
            ELSE base_confidence
    IN  RatMin(Rat(1, 1), RatMax(Rat(3, 10), adjusted))

\* the factors of all dimensions in library order
AllRiskFactors ==
    RiskFactors.technical_risk \o RiskFactors.operational_risk
      \o RiskFactors.regulatory_risk \o RiskFactors.ethical_risk
      \o RiskFactors.business_risk \o RiskFactors.security_risk

\* assess_ai_system_risk with the critical threshold exclusive
AssessAISystemRiskAbove(ai_system, custom_weights, now) ==
    LET dimension_scores ==
            [d \in Elems(RiskDimension) |->
                CalculateDimensionScore(ai_system, RiskFactors[d], custom_weights)]
        critical ==
            SelectSeq(AllRiskFactors,
                      LAMBDA f : EvaluateRiskFactor(ai_system, f) > 4)
        overall_score == CalculateOverallScore(dimension_scores)
    IN  [overall_score |-> overall_score,
         risk_level |-> DetermineRiskLevel(overall_score),
         dimension_scores |-> dimension_scores,
         critical_factors |-> [i \in 1..Len(critical) |-> critical[i].name],
         risk_factors |-> [i \in 1..Len(AllRiskFactors) |-> AllRiskFactors[i].factor_id],
         confidence_level |-> CalculateConfidence(ai_system, dimension_scores),
         assessment_date |-> IsoFormat(now)]

\* assess_ai_system_risk(ai_system, custom_weights) at instant now
AssessAISystemRisk(ai_system, custom_weights, now) ==
    LET dimension_scores ==
            [d \in Elems(RiskDimension) |->
                CalculateDimensionScore(ai_system, RiskFactors[d], custom_weights)]
        critical ==
            SelectSeq(AllRiskFactors,
                      LAMBDA f : EvaluateRiskFactor(ai_system, f) >= 4)
        overall_score == CalculateOverallScore(dimension_scores)
    IN  [overall_score |-> overall_score,
         risk_level |-> DetermineRiskLevel(overall_score),
         dimension_scores |-> dimension_scores,
         critical_factors |-> [i \in 1..Len(critical) |-> critical[i].name],
         risk_factors |-> [i \in 1..Len(AllRiskFactors) |-> AllRiskFactors[i].factor_id],
         confidence_level |-> CalculateConfidence(ai_system, dimension_scores),
         assessment_date |-> IsoFormat(now)]

---------------------------------------------------------------------------
(* The scoring engine driven by a caller *)

\* d with d[f] = v
With(d, f, v) == [k \in DOMAIN d \cup {f} |-> IF k = f THEN v ELSE d[k]]

\* d with the key f deleted
Without(d, f) == [k \in DOMAIN d \ {f} |-> d[k]]

\* a system description that supplies none of the expected fields
BaseSystem == [name |-> "AI System"]

\* a system description that supplies all of them, each with its best value
FullSystem ==
    [name |-> "AI System",
     performance_metrics |-> [accuracy |-> 90],
     compliance_status |-> "compliant",
     human_oversight |-> "full",
     bias_metrics |-> [overall_bias_score |-> 30],
     data_types |-> <<"pii">>]

\* the values tried for each expected field: recognised ones, unrecognised
\* ones ("partial" oversight, "pending" status) and dicts without the key read
FieldValues(f) ==
    CASE f = "performance_metrics" ->
            {[accuracy |-> 60], [accuracy |-> 80], [accuracy |-> 90], [f1 |-> 90]}
      [] f = "human_oversight" -> {"none", "minimal", "moderate", "full", "partial"}
      [] f = "compliance_status" -> {"non_compliant", "partial", "compliant", "pending"}
      [] f = "bias_metrics" ->
            {[overall_bias_score |-> 30], [overall_bias_score |-> 60],
             [overall_bias_score |-> 90], [demographic_parity |-> 10]}
      [] f = "data_types" -> {<<>>, <<"pii">>}

\* the ai_system arguments tried
AISystems ==
    {BaseSystem, FullSystem}
      \cup {With(BaseSystem, f, v) : <<f, v>> \in
               UNION {{f2} \X FieldValues(f2) : f2 \in Elems(ExpectedFields)}}
      \cup {Without(FullSystem, f) : f \in Elems(ExpectedFields)}

\* custom_weights with every factor of the technical dimension at 0
ZeroTechnicalWeights ==
    [id \in {RiskFactors.technical_risk[i].factor_id :
                i \in 1..Len(RiskFactors.technical_risk)} |-> 0]

\* custom_weights with every factor at 0
ZeroWeights ==
    [id \in {AllRiskFactors[i].factor_id : i \in 1..Len(AllRiskFactors)} |-> 0]

\* the custom_weights arguments tried, in hundredths, each within [0, 1]
CustomWeightInputs ==
    {EmptyDict, ZeroTechnicalWeights, ZeroWeights,
     [model_accuracy |-> 100, human_oversight |-> 50]}

\* the dimension_scores arguments tried for _calculate_overall_score: what a
\* run computes for a system, cut down to none, one, all but one or all of the
\* dimensions
DimensionScoreInputs ==
    {[d \in D |-> CalculateDimensionScore(FullSystem, RiskFactors[d], EmptyDict)] :
        D \in {D2 \in SUBSET Elems(RiskDimension) :
                  Cardinality(D2) <= 1 \/ Cardinality(D2) >= Len(RiskDimension) - 1}}

\* the dimension_scores arguments tried for _calculate_confidence: one score,
\* and six scores of small, middling and large dispersion
ConfidenceScoreInputs ==
    {[d \in {"technical_risk"} |-> Rat(3, 1)]}
      \cup {[d \in Elems(RiskDimension) |->
                IF d = "technical_risk" THEN Rat(lo, 1) ELSE Rat(hi, 2)] :
            <<lo, hi>> \in {<<3, 6>>, <<2, 7>>, <<1, 10>>}}

\* a caller runs assess_ai_system_risk
AssessAISystemRiskCall(ai_system, custom_weights, now) ==
    /\ clock' = now
    /\ lastCall' = [op |-> "assess_ai_system_risk",
                    ai_system |-> ai_system,
                    custom_weights |-> custom_weights,
                    result |-> AssessAISystemRisk(ai_system, custom_weights, now)]
    /\ UNCHANGED <<audit_events, system_registry, encryption_key, nextUuid, tamper,
                   pc, local, requirements, assessment_history>>

\* a caller runs _calculate_overall_score
CalculateOverallScoreCall(dimension_scores) ==
    /\ lastCall' = [op |-> "_calculate_overall_score",
                    dimension_scores |-> dimension_scores,
                    result |-> CalculateOverallScore(dimension_scores)]
    /\ UNCHANGED <<audit_events, system_registry, encryption_key, clock, nextUuid,
                   tamper, pc, local, requirements, assessment_history>>

\* a caller runs _evaluate_risk_factor on the i-th factor of the library
EvaluateRiskFactorCall(ai_system, i) ==
    /\ lastCall' = [op |-> "_evaluate_risk_factor",
                    ai_system |-> ai_system,
                    factor_id |-> AllRiskFactors[i].factor_id,
                    result |-> EvaluateRiskFactor(ai_system, AllRiskFactors[i])]
    /\ UNCHANGED <<audit_events, system_registry, encryption_key, clock, nextUuid,
                   tamper, pc, local, requirements, assessment_history>>

\* a caller runs _calculate_confidence
CalculateConfidenceCall(ai_system, dimension_scores) ==
    /\ lastCall' = [op |-> "_calculate_confidence",
                    ai_system |-> ai_system,
                    dimension_scores |-> dimension_scores,
                    result |-> CalculateConfidence(ai_system, dimension_scores)]
    /\ UNCHANGED <<audit_events, system_registry, encryption_key, clock, nextUuid,
                   tamper, pc, local, requirements, assessment_history>>

NextRisk ==
    \/ \E ai_system \in AISystems, custom_weights \in CustomWeightInputs,
          now \in NowChoices(clock) :
          AssessAISystemRiskCall(ai_system, custom_weights, now)
    \/ \E dimension_scores \in DimensionScoreInputs :
          CalculateOverallScoreCall(dimension_scores)
    \/ \E ai_system \in AISystems, i \in 1..Len(AllRiskFactors) :
          EvaluateRiskFactorCall(ai_system, i)
    \/ \E ai_system \in AISystems, dimension_scores \in ConfidenceScoreInputs :
          CalculateConfidenceCall(ai_system, dimension_scores)

SpecRisk == Init /\ [][NextRisk]_vars

---------------------------------------------------------------------------
(* Claims about the scoring engine *)

\* the result that stands for "no score": the weights summed to zero
Undetermined == [kind |-> "Undetermined"]

\* C11: whenever the weights of a scoring step sum to zero -- the custom
\* weights of all factors of a dimension are 0, or no dimension was evaluated
\* -- the engine returns Undetermined for that score and never a number.
C11_ZeroWeightUndetermined ==
    /\ lastCall.op = "assess_ai_system_risk" =>
          \A d \in Elems(RiskDimension) :
              TotalWeight(RiskFactors[d], lastCall.custom_weights) = 0
                  => lastCall.result.dimension_scores[d] = Undetermined
    /\ lastCall.op = "_calculate_overall_score" =>
          (DOMAIN lastCall.dimension_scores = {}
              => lastCall.result = Undetermined)

\* lo <= x <= hi, for whole numbers lo and hi
RatWithin(x, lo, hi) == RatLeq(Rat(lo, 1), x) /\ RatLeq(x, Rat(hi, 1))

\* C12: every score that assess_ai_system_risk produces lies in its declared
\* range: each dimension score and the overall score are within [1, 5], for
\* every system description and every custom weight map with weights in [0, 1].
C12_RiskScoresInRange ==
    lastCall.op = "assess_ai_system_risk" =>
        /\ \A d \in Elems(RiskDimension) :
              RatWithin(lastCall.result.dimension_scores[d], 1, 5)
        /\ RatWithin(lastCall.result.overall_score, 1, 5)

\* C14: two consecutive calls of assess_ai_system_risk with identical
\* arguments return assessments that are identical in every field, the
\* assessment date included.
C14_SameInputsSameOutput ==
    [][(/\ lastCall.op = "assess_ai_system_risk"
        /\ lastCall'.op = "assess_ai_system_risk"
        /\ lastCall'.ai_system = lastCall.ai_system
        /\ lastCall'.custom_weights = lastCall.custom_weights)
          => lastCall'.result = lastCall.result]_vars

\* the factors that _evaluate_risk_factor scores from the system description
EvaluatedFactors ==
    {"model_accuracy", "human_oversight", "compliance_coverage", "bias_fairness"}

\* the description gives no value, or none that the evaluator of the factor
\* names, for the field that the evaluator reads
FieldUnknown(ai_system, factor_id) ==
    CASE factor_id = "model_accuracy" ->
            \/ "performance_metrics" \notin DOMAIN ai_system
            \/ "accuracy" \notin DOMAIN ai_system.performance_metrics
      [] factor_id = "human_oversight" ->
            \/ "human_oversight" \notin DOMAIN ai_system
            \/ ai_system.human_oversight \notin {"none", "minimal", "moderate", "full"}
      [] factor_id = "compliance_coverage" ->
            \/ "compliance_status" \notin DOMAIN ai_system
            \/ ai_system.compliance_status \notin {"non_compliant", "partial", "compliant"}
      [] factor_id = "bias_fairness" ->
            \/ "bias_metrics" \notin DOMAIN ai_system
            \/ "overall_bias_score" \notin DOMAIN ai_system.bias_metrics

\* C18: for every factor with an evaluator, the tier returned when the field
\* it reads is absent or holds an unrecognised value is at least the median
\* tier 3.
C18_UnknownNotLenient ==
    (/\ lastCall.op = "_evaluate_risk_factor"
     /\ lastCall.factor_id \in EvaluatedFactors
     /\ FieldUnknown(lastCall.ai_system, lastCall.factor_id))
        => lastCall.result >= 3

\* the decision table of the human-oversight evaluator
OversightTable == [none |-> 5, minimal |-> 4, moderate |-> 2, full |-> 1]

\* C19: the human-oversight evaluator returns tier 5 for 'none', 4 for
\* 'minimal', 2 for 'moderate' and 1 for 'full', and every factor score that
\* _evaluate_risk_factor returns is within [1, 5].
C19_OversightTable ==
    lastCall.op = "_evaluate_risk_factor" =>
        /\ lastCall.result \in 1..5
        /\ (/\ lastCall.factor_id = "human_oversight"
            /\ "human_oversight" \in DOMAIN lastCall.ai_system
            /\ lastCall.ai_system.human_oversight \in DOMAIN OversightTable)
              => lastCall.result = OversightTable[lastCall.ai_system.human_oversight]

\* a call scored 'moderate' oversight, and got tier 2
C19_Witness ==
    /\ lastCall.op = "_evaluate_risk_factor"
    /\ lastCall.factor_id = "human_oversight"
    /\ "human_oversight" \in DOMAIN lastCall.ai_system
    /\ lastCall.ai_system.human_oversight = "moderate"
    /\ lastCall.result = 2

\* C20: the confidence of every assessment is within [0, 1] (the code keeps it
\* within [0.3, 1]); it is the value _calculate_confidence computes from the
\* description and the dimension scores; and with the dimension scores held
\* fixed, supplying one more of the five expected fields never lowers it.
C20_ConfidenceBoundedMonotone ==
    /\ lastCall.op = "assess_ai_system_risk" =>
          /\ RatWithin(lastCall.result.confidence_level, 0, 1)
          /\ RatLeq(Rat(3, 10), lastCall.result.confidence_level)
          /\ lastCall.result.confidence_level =
                CalculateConfidence(lastCall.ai_system, lastCall.result.dimension_scores)
    /\ lastCall.op = "_calculate_confidence" =>
          /\ RatWithin(lastCall.result, 0, 1)
          /\ RatLeq(Rat(3, 10), lastCall.result)
          /\ \A f \in Elems(ExpectedFields) :
                f \notin DOMAIN lastCall.ai_system =>
                    \A v \in FieldValues(f) :
                        RatLeq(lastCall.result,
                               CalculateConfidence(With(lastCall.ai_system, f, v),
                                                   lastCall.dimension_scores))

\* a description lacking data_types got confidence 0.8 on six scores without
\* dispersion, and the same description with data_types gets 1.0
C20_Witness ==
    /\ lastCall.op = "_calculate_confidence"
    /\ lastCall.ai_system = Without(FullSystem, "data_types")
    /\ Cardinality(DOMAIN lastCall.dimension_scores) > 1
    /\ lastCall.result = Rat(4, 5)
    /\ CalculateConfidence(FullSystem, lastCall.dimension_scores) = Rat(1, 1)

---------------------------------------------------------------------------
(* Status classification (risk_assessment_demo/compliance_checker.py and
   compliance_automation/regulatory_reporting_suite.py) *)

\* _score_to_status with the boundary at 90 exclusive
ScoreToStatusExclusive(score) ==
    IF RatLess(Rat(90, 1), score) THEN "fully_compliant"
    ELSE IF RatLeq(Rat(75, 1), score) THEN "substantially_compliant"
    ELSE IF RatLeq(Rat(50, 1), score) THEN "partially_compliant"
    ELSE "non_compliant"

\* AIComplianceChecker._score_to_status(score): the value of the
\* ComplianceStatus member returned
ScoreToStatus(score) ==
    IF RatLeq(Rat(90, 1), score) THEN "fully_compliant"
    ELSE IF RatLeq(Rat(75, 1), score) THEN "substantially_compliant"
    ELSE IF RatLeq(Rat(50, 1), score) THEN "partially_compliant"
    ELSE "non_compliant"

\* RegulatoryReportingSuite._assess_framework_compliance: the status it
\* determines from total_score
SuiteComplianceStatus(total_score) ==
    IF RatLeq(Rat(90, 1), total_score) THEN "fully_compliant"
    ELSE IF RatLeq(Rat(75, 1), total_score) THEN "substantially_compliant"
    ELSE IF RatLeq(Rat(50, 1), total_score) THEN "partially_compliant"
    ELSE "non_compliant"

\* the largest number of half points in a score tried
MaxHalfPoints == 200

\* the scores tried: every half point of [0, 100], a tenth below each
\* boundary, and a score on either side of the range
ScoreInputs ==
    {Rat(n, 2) : n \in 0..MaxHalfPoints}
      \cup {Rat(899, 10), Rat(749, 10), Rat(499, 10), Rat(-5, 1), Rat(120, 1)}

\* a caller runs _score_to_status
ScoreToStatusCall(score) ==
    /\ lastCall' = [op |-> "_score_to_status", score |-> score,
                    result |-> ScoreToStatus(score)]
    /\ UNCHANGED <<audit_events, system_registry, encryption_key, clock, nextUuid,
                   tamper, pc, local, requirements, assessment_history>>

\* an assessment of the reporting suite reaches its status determination
\* with total_score
SuiteComplianceStatusCall(total_score) ==
    /\ lastCall' = [op |-> "_assess_framework_compliance.status",
                    score |-> total_score,
                    result |-> SuiteComplianceStatus(total_score)]
    /\ UNCHANGED <<audit_events, system_registry, encryption_key, clock, nextUuid,
                   tamper, pc, local, requirements, assessment_history>>

NextClassify ==
    \/ \E score \in ScoreInputs : ScoreToStatusCall(score)
    \/ \E total_score \in ScoreInputs : SuiteComplianceStatusCall(total_score)

SpecClassify == Init /\ [][NextClassify]_vars

\* the labels from the lowest to the highest
StatusRank ==
    [non_compliant |-> 0, partially_compliant |-> 1,
     substantially_compliant |-> 2, fully_compliant |-> 3]

\* the label the threshold table gives a score: >= 90, >= 75, >= 50, else
Classified(score) ==
    CASE RatLeq(Rat(90, 1), score) -> "fully_compliant"
      [] RatLeq(Rat(75, 1), score) /\ RatLess(score, Rat(90, 1)) ->
            "substantially_compliant"
      [] RatLeq(Rat(50, 1), score) /\ RatLess(score, Rat(75, 1)) ->
            "partially_compliant"
      [] RatLess(score, Rat(50, 1)) -> "non_compliant"

\* the classifier that the last call ran, applied to a score
SameClassifier(score) ==
    IF lastCall.op = "_score_to_status" THEN ScoreToStatus(score)
    ELSE SuiteComplianceStatus(score)

\* C16: both classifiers give every score exactly the label of the threshold
\* table with inclusive lower boundaries (>= 90 fully, >= 75 substantially,
\* >= 50 partially, below 50 non-compliant), and a higher score never gets a
\* lower label.
C16_StatusPartition ==
    lastCall.op \in {"_score_to_status", "_assess_framework_compliance.status"} =>
        /\ lastCall.result = Classified(lastCall.score)
        /\ \A higher \in ScoreInputs :
              RatLeq(lastCall.score, higher) =>
                  StatusRank[lastCall.result] <= StatusRank[SameClassifier(higher)]

\* _score_to_status classified the score 90 itself, as fully compliant
C16_Witness ==
    /\ lastCall.op = "_score_to_status"
    /\ lastCall.score = Rat(90, 1)
    /\ lastCall.result = "fully_compliant"

---------------------------------------------------------------------------
(* ISO42001GapAnalyzer (compliance_automation/iso_42001_gap_analyzer.py) *)

\* _load_assessment_framework: scoring_criteria
ScoringCriteria ==
    [fully_compliant |-> 5, substantially_compliant |-> 4,
     partially_compliant |-> 3, non_compliant |-> 1, not_assessed |-> 0]

\* _calculate_overall_compliance_score: category_weights, in hundredths
CategoryWeights ==
    [leadership_commitment |-> 20, operational_controls |-> 25,
     planning_risk_management |-> 15, organizational_context |-> 10,
     support_resources |-> 15, performance_evaluation |-> 10,
     continual_improvement |-> 5]

\* _update_requirements_status(assessment) on the requirements reqs: the loop
\* runs in list order and ComplianceStatus(...) raises ValueError on a value
\* of no member, which ends it there: the requirements before that one are
\* updated, that one and the later ones are not
UpdateRequirementsStatus(reqs, assessment) ==
    LET assessed == {i \in 1..Len(reqs) :
                        IsoRequirements[i].requirement_id \in DOMAIN assessment}
        status(i) == Get(assessment[IsoRequirements[i].requirement_id],
                         "status", "not_assessed")
        invalid == {i \in assessed : status(i) \notin GapComplianceStatus}
        stop == IF invalid = {} THEN Len(reqs) + 1
                ELSE CHOOSE i \in invalid : \A j \in invalid : i <= j
    IN  [requirements |->
            [i \in 1..Len(reqs) |->
                IF i \in assessed /\ i < stop
                THEN [current_status |-> status(i),
                      gap_description |->
                          Get(assessment[IsoRequirements[i].requirement_id],
                              "gap_description", "")]
                ELSE reqs[i]],
         raised |-> invalid # {}]

\* _calculate_category_scores() on the requirements reqs
CalculateCategoryScores(reqs) ==
    [category \in Elems(RequirementCategory) |->
        LET category_requirements ==
                {i \in 1..Len(reqs) : IsoRequirements[i].category = category}
            points == [i \in category_requirements |->
                          ScoringCriteria[reqs[i].current_status]]
            total_score == IntSum(points, category_requirements)
            max_possible == Cardinality(category_requirements)
                              * ScoringCriteria.fully_compliant
        IN  IF category_requirements # {}
            THEN RatMul(Rat(total_score, max_possible), Rat(5, 1))
            ELSE Rat(0, 1)]

\* _calculate_overall_compliance_score(category_scores)
CalculateOverallComplianceScore(category_scores) ==
    LET term == [c \in DOMAIN CategoryWeights |->
                    RatMul(Get(category_scores, c, Rat(0, 1)),
                           Rat(CategoryWeights[c], 100))]
    IN  RatSum(term, DOMAIN CategoryWeights)

\* _load_assessment_framework: readiness_thresholds, in tenths
ReadinessThresholds ==
    [certification_ready |-> 45, advanced |-> 35, intermediate |-> 25,
     basic |-> 15, initial |-> 0]

\* _determine_readiness_level(overall_score)
DetermineReadinessLevel(overall_score) ==
    IF RatLeq(Rat(ReadinessThresholds.certification_ready, 10), overall_score)
    THEN "Certification Ready"
    ELSE IF RatLeq(Rat(ReadinessThresholds.advanced, 10), overall_score)
    THEN "Advanced"
    ELSE IF RatLeq(Rat(ReadinessThresholds.intermediate, 10), overall_score)
    THEN "Intermediate"
    ELSE IF RatLeq(Rat(ReadinessThresholds.basic, 10), overall_score)
    THEN "Basic"
    ELSE "Initial"

\* _identify_critical_gaps() on the requirements reqs
IdentifyCriticalGaps(reqs) ==
    LET critical == SelectSeq([i \in 1..Len(reqs) |-> i], LAMBDA i :
                       /\ reqs[i].current_status \in {"non_compliant", "not_assessed"}
                       /\ IsoRequirements[i].implementation_effort = "critical")
    IN  [k \in 1..Len(critical) |->
            IsoRequirements[critical[k]].clause \o " - "
              \o IsoRequirements[critical[k]].title]

\* _estimate_implementation_timeline: base_timeline, in months
BaseTimeline == 12

\* _estimate_implementation_timeline: the multipliers, in hundredths
SizeMultipliers == [small |-> 75, medium |-> 100, large |-> 125, enterprise |-> 150]
MaturityMultipliers ==
    [initial |-> 150, developing |-> 125, intermediate |-> 100, advanced |-> 75]

\* _estimate_implementation_timeline(org_profile); int() truncates
EstimateImplementationTimeline(org_profile) ==
    LET org_size == Get(org_profile, "size", "medium")
        ai_maturity == Get(org_profile, "ai_maturity", "intermediate")
    IN  (BaseTimeline * Get(SizeMultipliers, org_size, 100)
                      * Get(MaturityMultipliers, ai_maturity, 100)) \div 10000

\* conduct_gap_analysis(organization_profile, current_state_assessment) on an
\* analyzer whose requirements are reqs: the requirements it leaves and what
\* it returns or raises.  An assessment that is None or empty is skipped.  Of
\* the result, the roadmap, the resource estimate and the quick wins are left
\* out.
ConductGapAnalysis(reqs, organization_profile, current_state_assessment) ==
    LET updated == IF DOMAIN current_state_assessment # {}
                   THEN UpdateRequirementsStatus(reqs, current_state_assessment)
                   ELSE [requirements |-> reqs, raised |-> FALSE]
        category_scores == CalculateCategoryScores(updated.requirements)
        overall_score == CalculateOverallComplianceScore(category_scores)
    IN  [requirements |-> updated.requirements,
         outcome |->
            IF updated.raised THEN [raised |-> "ValueError"]
            ELSE [overall_compliance_score |-> overall_score,
                  readiness_level |-> DetermineReadinessLevel(overall_score),
                  category_scores |-> category_scores,
                  critical_gaps |-> IdentifyCriticalGaps(updated.requirements),
                  estimated_timeline_months |->
                      EstimateImplementationTimeline(organization_profile)]]

\* the organization_profile arguments tried
OrganizationProfiles ==
    {[name |-> "Org"], [size |-> "small", ai_maturity |-> "initial"]}

\* the current_state_assessment arguments tried: none; the leadership
\* requirements fully compliant; a partial and a failed requirement with a gap
\* text; a requirement without status and an unknown requirement id; a status
\* that is no ComplianceStatus value between two valid ones
StateAssessments ==
    {EmptyDict,
     [r \in {"5.1", "5.2"} |-> [status |-> "fully_compliant"]],
     [r \in {"4.1", "8.1"} |->
         IF r = "4.1"
         THEN [status |-> "partially_compliant", gap_description |-> "no context analysis"]
         ELSE [status |-> "non_compliant", gap_description |-> "no controls"]],
     [r \in {"5.1", "99.9"} |->
         IF r = "5.1" THEN [gap_description |-> "open"]
         ELSE [status |-> "fully_compliant", gap_description |-> ""]],
     [r \in {"4.1", "5.1", "8.1"} |->
         IF r = "5.1" THEN [status |-> "compliant"]
         ELSE [status |-> "fully_compliant"]]}

\* the category_scores arguments tried for _calculate_overall_compliance_score:
\* every category at 5.0 or at 3.0, cut down to none, one, all but one or all
\* of the categories
CategoryScoreInputs ==
    {[c \in D |-> Rat(v, 1)] :
        <<D, v>> \in {D2 \in SUBSET Elems(RequirementCategory) :
                         \/ Cardinality(D2) <= 1
                         \/ Cardinality(D2) >= Len(RequirementCategory) - 1}
                     \X {3, 5}}

\* a caller runs conduct_gap_analysis
ConductGapAnalysisCall(organization_profile, current_state_assessment) ==
    LET run == ConductGapAnalysis(requirements, organization_profile,
                                  current_state_assessment)
    IN  /\ requirements' = run.requirements
        /\ lastCall' = [op |-> "conduct_gap_analysis",
                        organization_profile |-> organization_profile,
                        current_state_assessment |-> current_state_assessment,
                        before |-> requirements,
                        result |-> run.outcome]
        /\ UNCHANGED <<audit_events, system_registry, encryption_key, clock, nextUuid,
                       tamper, pc, local, assessment_history>>

\* a caller runs _calculate_overall_compliance_score
CalculateOverallComplianceScoreCall(category_scores) ==
    /\ lastCall' = [op |-> "_calculate_overall_compliance_score",
                    category_scores |-> category_scores,
                    result |-> CalculateOverallComplianceScore(category_scores)]
    /\ UNCHANGED <<audit_events, system_registry, encryption_key, clock, nextUuid,
                   tamper, pc, local, requirements, assessment_history>>

NextGap ==
    \/ \E organization_profile \in OrganizationProfiles,
          current_state_assessment \in StateAssessments :
          ConductGapAnalysisCall(organization_profile, current_state_assessment)
    \/ \E category_scores \in CategoryScoreInputs :
          CalculateOverallComplianceScoreCall(category_scores)

SpecGap == Init /\ [][NextGap]_vars

---------------------------------------------------------------------------
(* Claims about the gap analyzer *)

\* the weighted mean of the scores of the categories that have one
WeightedMeanOfPresent(category_scores) ==
    LET present == DOMAIN CategoryWeights \cap DOMAIN category_scores
        term == [c \in present |->
                    RatMul(category_scores[c], Rat(CategoryWeights[c], 100))]
        weight == [c \in present |-> CategoryWeights[c]]
    IN  RatDiv(RatSum(term, present), Rat(IntSum(weight, present), 100))

\* C13: the overall score is the weighted mean over the categories that have
\* a score: a category without a score adds to neither the sum nor the
\* weights, so leaving it out never lowers the overall score as if it had
\* scored zero.
C13_MeanOverEvaluated ==
    (/\ lastCall.op = "_calculate_overall_compliance_score"
     /\ DOMAIN lastCall.category_scores # {})
        => lastCall.result = WeightedMeanOfPresent(lastCall.category_scores)

\* what the same call returns on a freshly constructed analyzer
FreshResult ==
    ConductGapAnalysis(LoadIso42001Requirements, lastCall.organization_profile,
                       lastCall.current_state_assessment).outcome

\* C15: whatever calls came before, conduct_gap_analysis returns the category
\* scores, overall score, readiness level and critical gaps that the same call
\* returns on a freshly constructed analyzer.
C15_GapAnalysisStateless ==
    (/\ lastCall.op = "conduct_gap_analysis"
     /\ "raised" \notin DOMAIN lastCall.result)
        => /\ lastCall.result.category_scores = FreshResult.category_scores
           /\ lastCall.result.overall_compliance_score
                 = FreshResult.overall_compliance_score
           /\ lastCall.result.readiness_level = FreshResult.readiness_level
           /\ lastCall.result.critical_gaps = FreshResult.critical_gaps

---------------------------------------------------------------------------
(* Claims about the compliance report of the audit trail *)

\* the event types that the events of the report's framework and period log
ObservedTypes ==
    LET filtered == FilteredEvents(audit_events, lastCall.args[1], lastCall.args[2],
                                   lastCall.args[3], clock)
    IN  {filtered[i].event_type : i \in 1..Len(filtered)}

\* C17: in every compliance report, missing_requirements is the required
\* event types that no filtered event logs, required_events_covered is the
\* number of required types less the number of missing ones, and the reported
\* score is the coverage ratio, 100 when nothing is required.
C17_ReportIsCoverage ==
    lastCall.op = "generate_compliance_report" =>
        LET required == RequiredEvents(lastCall.args[1])
            report == lastCall.result
        IN  /\ report.missing_requirements = required \ ObservedTypes
            /\ report.compliance_summary.required_events_covered
                  = Cardinality(required) - Cardinality(report.missing_requirements)
            /\ report.compliance_summary.compliance_score
                  = IF required = {} THEN Rat(100, 1)
                    ELSE Rat(100 * Cardinality(required \cap ObservedTypes),
                             Cardinality(required))

---------------------------------------------------------------------------
(* Arithmetic of the compliance checker: IEEE 754 binary64 *)

\* AIComplianceChecker adds and multiplies floats in the order of the
\* frameworks it is given, so its floats are modelled bit for bit.  A natural
\* number of any size is the sequence of its digits in base Limb, lowest
\* first, the highest not 0; the number 0 is <<>>.
Limb == 2^15

\* the number of bits of a digit
LimbBits == 15

\* the significand of a binary64 has 53 bits
Precision == 53

\* a without leading zero digits
RECURSIVE BigTrim(_)
BigTrim(a) ==
    IF a = <<>> THEN a
    ELSE IF a[Len(a)] = 0 THEN BigTrim(SubSeq(a, 1, Len(a) - 1))
    ELSE a

\* the natural number n
RECURSIVE BigFromInt(_)
BigFromInt(n) ==
    IF n = 0 THEN <<>> ELSE <<n % Limb>> \o BigFromInt(n \div Limb)

\* the i-th digit of a
BigDigit(a, i) == IF i <= Len(a) THEN a[i] ELSE 0

\* a + b from digit i on, with a carry
RECURSIVE BigAddFrom(_, _, _, _)
BigAddFrom(a, b, i, carry) ==
    IF i > Len(a) /\ i > Len(b)
    THEN IF carry = 0 THEN <<>> ELSE <<carry>>
    ELSE LET s == BigDigit(a, i) + BigDigit(b, i) + carry
         IN  <<s % Limb>> \o BigAddFrom(a, b, i + 1, s \div Limb)

\* a + b
BigAdd(a, b) == BigAddFrom(a, b, 1, 0)

\* a - b from digit i on, with a borrow
RECURSIVE BigSubFrom(_, _, _, _)
BigSubFrom(a, b, i, borrow) ==
    IF i > Len(a) THEN <<>>
    ELSE LET s == a[i] - BigDigit(b, i) - borrow
         IN  <<IF s < 0 THEN s + Limb ELSE s>>
                \o BigSubFrom(a, b, i + 1, IF s < 0 THEN 1 ELSE 0)

\* a - b, for a >= b
BigSub(a, b) == BigTrim(BigSubFrom(a, b, 1, 0))

\* a <= b on the digits i, i - 1, ..., 1 of two numbers of the same length
RECURSIVE BigLeqFrom(_, _, _)
BigLeqFrom(a, b, i) ==
    IF i = 0 THEN TRUE
    ELSE IF a[i] # b[i] THEN a[i] < b[i]
    ELSE BigLeqFrom(a, b, i - 1)

\* a <= b
BigLeq(a, b) ==
    IF Len(a) # Len(b) THEN Len(a) < Len(b) ELSE BigLeqFrom(a, b, Len(a))

\* a * k from digit i on, with a carry, for a digit k
RECURSIVE BigMulDigitFrom(_, _, _, _)
BigMulDigitFrom(a, k, i, carry) ==
    IF i > Len(a)
    THEN IF carry = 0 THEN <<>> ELSE <<carry>>
    ELSE LET p == a[i] * k + carry
         IN  <<p % Limb>> \o BigMulDigitFrom(a, k, i + 1, p \div Limb)

\* a * Limb
BigShiftLimb(a) == IF a = <<>> THEN a ELSE <<0>> \o a

\* a * b
RECURSIVE BigMul(_, _)
BigMul(a, b) ==
    IF a = <<>> \/ b = <<>> THEN <<>>
    ELSE BigAdd(BigTrim(BigMulDigitFrom(a, b[1], 1, 0)),
                BigShiftLimb(BigMul(a, Tail(b))))

\* a * 2^k
RECURSIVE BigShl(_, _)
BigShl(a, k) ==
    IF k >= LimbBits THEN BigShl(BigShiftLimb(a), k - LimbBits)
    ELSE BigTrim(BigMulDigitFrom(a, 2^k, 1, 0))

\* a \div 2^k
RECURSIVE BigShr(_, _)
BigShr(a, k) ==
    IF a = <<>> THEN a
    ELSE IF k >= LimbBits THEN BigShr(Tail(a), k - LimbBits)
    ELSE BigTrim([i \in 1..Len(a) |->
                    (a[i] \div 2^k) + (BigDigit(a, i + 1) % 2^k) * 2^(LimbBits - k)])

\* a % 2^k = 0
RECURSIVE BigLowZero(_, _)
BigLowZero(a, k) ==
    IF a = <<>> THEN TRUE
    ELSE IF k >= LimbBits THEN a[1] = 0 /\ BigLowZero(Tail(a), k - LimbBits)
    ELSE a[1] % 2^k = 0

\* bit k of a, bit 0 the lowest
BigBit(a, k) == (BigDigit(a, (k \div LimbBits) + 1) \div 2^(k % LimbBits)) % 2

\* the number of bits of the digit n
RECURSIVE IntBitLen(_)
IntBitLen(n) == IF n = 0 THEN 0 ELSE 1 + IntBitLen(n \div 2)

\* the number of bits of a
BigBitLen(a) ==
    IF a = <<>> THEN 0 ELSE LimbBits * (Len(a) - 1) + IntBitLen(a[Len(a)])

\* A float x >= 0 is [m, e] with x = m * 2^e and m of exactly Precision bits;
\* 0.0 is [m |-> <<>>, e |-> 0].  No computation of the checker leaves the
\* normal range.
F64Zero == [m |-> <<>>, e |-> 0]

\* the significand r at exponent e, r of Precision or Precision + 1 bits
Normalized(r, e) ==
    IF BigBitLen(r) > Precision THEN [m |-> BigShr(r, 1), e |-> e + 1]
    ELSE [m |-> r, e |-> e]

\* rounding n to its bits from s on goes up: the bit below is 1 and the rest
\* is more than nothing (sticky, or a lower bit of n) or bit s, the last one
\* kept, is odd
RoundsUp(n, s, sticky) ==
    /\ BigBit(n, s - 1) = 1
    /\ \/ sticky
       \/ ~BigLowZero(n, s - 1)
       \/ BigBit(n, s) = 1

\* n rounded to its bits from s on
RoundedAt(n, s, sticky) ==
    IF RoundsUp(n, s, sticky) THEN BigAdd(BigShr(n, s), <<1>>) ELSE BigShr(n, s)

\* the float nearest to (n + f) * 2^e for n of len bits
RoundOfLength(n, e, sticky, len) ==
    IF len <= Precision
    THEN [m |-> BigShl(n, Precision - len), e |-> e - (Precision - len)]
    ELSE Normalized(RoundedAt(n, len - Precision, sticky), e + (len - Precision))

\* the float nearest to (n + f) * 2^e, ties to even, where 0 <= f < 1 and
\* sticky tells whether f > 0; n has more than Precision bits when sticky
RoundBinary64(n, e, sticky) ==
    IF n = <<>> THEN F64Zero ELSE RoundOfLength(n, e, sticky, BigBitLen(n))

\* float(n) for an int 0 <= n < 2^31
F64FromInt(n) == RoundBinary64(BigFromInt(n), 0, FALSE)

\* x + y for x, y > 0, e the lesser exponent
F64AddAt(x, y, e) ==
    RoundBinary64(BigAdd(BigShl(x.m, x.e - e), BigShl(y.m, y.e - e)), e, FALSE)

\* x + y
F64Add(x, y) ==
    IF x.m = <<>> THEN y
    ELSE IF y.m = <<>> THEN x
    ELSE F64AddAt(x, y, IF x.e < y.e THEN x.e ELSE y.e)

\* x * y
F64Mul(x, y) == RoundBinary64(BigMul(x.m, y.m), x.e + y.e, FALSE)

\* the estimate of the next digit of a long division by d, whose highest
\* digit is at least Limb / 2, from the two highest digits of the remainder
\* r2 < d * Limb: it is at most 2 too large
DigitEstimate(r2, d) ==
    LET est == (BigDigit(r2, Len(d) + 1) * Limb + BigDigit(r2, Len(d))) \div d[Len(d)]
    IN  IF est > Limb - 1 THEN Limb - 1 ELSE est

\* the digit q, with p = q * d, lowered until p <= r2, and the remainder
RECURSIVE DigitCorrected(_, _, _, _)
DigitCorrected(r2, d, q, p) ==
    IF BigLeq(p, r2) THEN [q |-> q, r |-> BigSub(r2, p)]
    ELSE DigitCorrected(r2, d, q - 1, BigSub(p, d))

\* the digit q tried on the remainder r2
DigitTried(r2, d, q) ==
    DigitCorrected(r2, d, q, BigTrim(BigMulDigitFrom(d, q, 1, 0)))

\* the next digit of a long division by d when the remainder so far is
\* r < d, and the remainder after it
DivideStep(r, d) ==
    DigitTried(BigShiftLimb(r), d, DigitEstimate(BigShiftLimb(r), d))

\* the quotient p.q with the digit s.q put below it
WithDigit(p, s) == [q |-> <<s.q>> \o p.q, r |-> s.r]

\* the digits of (x * Limb^k) \div d, lowest first, and the remainder, for
\* x < 2 * d
RECURSIVE DivideDigits(_, _, _)
DivideDigits(x, d, k) ==
    IF k = 0
    THEN IF BigLeq(d, x) THEN [q |-> <<1>>, r |-> BigSub(x, d)]
         ELSE [q |-> <<0>>, r |-> x]
    ELSE LET p == DivideDigits(x, d, k - 1)
         IN  IF p.r = <<>> THEN [q |-> <<0>> \o p.q, r |-> <<>>]
             ELSE WithDigit(p, DivideStep(p.r, d))

\* the number of digits that hold Precision bits
PrecisionLimbs == (Precision + LimbBits - 1) \div LimbBits

\* the number of bits the significands are shifted by for the highest digit
\* of the divisor to be full
DivideShift == PrecisionLimbs * LimbBits - Precision

\* the float of the quotient digits d.q at exponent e, inexact unless the
\* remainder d.r is nothing
RoundQuotient(d, e) ==
    IF d.r = <<>> THEN RoundBinary64(BigTrim(d.q), e, FALSE)
    ELSE RoundBinary64(BigTrim(d.q), e, TRUE)

\* x / y, for y > 0: the significands are shifted until the highest digit of
\* the divisor is full, and PrecisionLimbs digits of the quotient are taken
F64Div(x, y) ==
    IF x.m = <<>> THEN F64Zero
    ELSE RoundQuotient(DivideDigits(BigShl(x.m, DivideShift), BigShl(y.m, DivideShift),
                                    PrecisionLimbs),
                       x.e - y.e - PrecisionLimbs * LimbBits)

\* the float of the decimal literal n / d, and of int n / int d
F64Ratio(n, d) == F64Div(F64FromInt(n), F64FromInt(d))

\* x <= y for x, y > 0, e the lesser exponent
F64LeqAt(x, y, e) == BigLeq(BigShl(x.m, x.e - e), BigShl(y.m, y.e - e))

\* x <= y
F64Leq(x, y) ==
    IF x.m = <<>> THEN TRUE
    ELSE IF y.m = <<>> THEN FALSE
    ELSE F64LeqAt(x, y, IF x.e < y.e THEN x.e ELSE y.e)
---------------------------------------------------------------------------
(* AIComplianceChecker (risk_assessment_demo/compliance_checker.py) *)

\* class RegulatoryFramework: the values of its members, in definition order
RegulatoryFramework ==
    <<"eu_ai_act", "gdpr", "iso_42001", "nist_ai_rmf", "ieee_2859",
      "iso_23053", "ccpa", "sarbanes_oxley", "hipaa", "pci_dss">>

\* _load_compliance_frameworks: the compliance_weight of each framework the
\* dictionary has an entry for, a float literal, given in hundredths
ComplianceFrameworks ==
    [eu_ai_act   |-> [compliance_weight |-> 25],
     gdpr        |-> [compliance_weight |-> 20],
     iso_42001   |-> [compliance_weight |-> 15],
     nist_ai_rmf |-> [compliance_weight |-> 15],
     ieee_2859   |-> [compliance_weight |-> 10]]

\* self.compliance_frameworks[framework]["compliance_weight"]: the float
ComplianceWeight(framework) ==
    F64Ratio(ComplianceFrameworks[framework].compliance_weight, 100)

\* assess_system_compliance: the frameworks assessed when none are given
DefaultFrameworks == <<"eu_ai_act", "gdpr", "iso_42001", "nist_ai_rmf">>

\* _score_to_risk(score): the value of the RiskLevel member returned
ScoreToRisk(score) ==
    IF score >= 90 THEN "negligible"
    ELSE IF score >= 75 THEN "low"
    ELSE IF score >= 50 THEN "medium"
    ELSE IF score >= 25 THEN "high"
    ELSE "critical"

\* _determine_compliance_status(overall_score): _score_to_status applied to
\* the float overall_score
DetermineComplianceStatus(overall_score) ==
    IF F64Leq(F64FromInt(90), overall_score) THEN "fully_compliant"
    ELSE IF F64Leq(F64FromInt(75), overall_score) THEN "substantially_compliant"
    ELSE IF F64Leq(F64FromInt(50), overall_score) THEN "partially_compliant"
    ELSE "non_compliant"

\* bool(ai_config.get(key))
Truthy(ai_config, key) == key \in DOMAIN ai_config /\ ai_config[key]

\* The ComplianceAssessment that every _assess_* method builds for one
\* requirement: met if the configuration key is set, unmet if not.  The
\* lists of evidence, gaps and remediation texts and the review date are
\* left out of the results.
NewComplianceAssessment(ai_config, requirement_id, key, met, unmet, now) ==
    LET score == IF Truthy(ai_config, key) THEN met ELSE unmet
    IN  [requirement_id  |-> requirement_id,
         status          |-> ScoreToStatus(Rat(score, 1)),
         score           |-> score,
         risk_level      |-> ScoreToRisk(score),
         assessment_date |-> IsoFormat(now),
         assessor        |-> "AI Compliance System"]

\* _assess_eu_ai_act_compliance
AssessEuAiActCompliance(ai_config, now) ==
    <<NewComplianceAssessment(ai_config, "eu_ai_act_risk_assessment",
                              "risk_assessment_complete", 85, 25, now),
      NewComplianceAssessment(ai_config, "eu_ai_act_qms",
                              "quality_management_system", 80, 30, now),
      NewComplianceAssessment(ai_config, "eu_ai_act_human_oversight",
                              "human_oversight", 90, 20, now),
      NewComplianceAssessment(ai_config, "eu_ai_act_transparency",
                              "explainable_ai", 70, 35, now)>>

\* _assess_gdpr_compliance
AssessGdprCompliance(ai_config, now) ==
    <<NewComplianceAssessment(ai_config, "gdpr_legal_basis",
                              "legal_basis_documented", 90, 15, now),
      NewComplianceAssessment(ai_config, "gdpr_data_subject_rights",
                              "data_subject_rights_implemented", 85, 25, now),
      NewComplianceAssessment(ai_config, "gdpr_privacy_by_design",
                              "privacy_by_design", 75, 30, now)>>

\* _assess_iso_42001_compliance
AssessIso42001Compliance(ai_config, now) ==
    <<NewComplianceAssessment(ai_config, "iso_42001_ams",
                              "ai_management_system", 80, 40, now),
      NewComplianceAssessment(ai_config, "iso_42001_monitoring",
                              "performance_monitoring", 85, 35, now)>>

\* _assess_nist_ai_rmf_compliance
AssessNistAiRmfCompliance(ai_config, now) ==
    <<NewComplianceAssessment(ai_config, "nist_ai_governance",
                              "ai_governance_framework", 75, 30, now),
      NewComplianceAssessment(ai_config, "nist_bias_evaluation",
                              "bias_evaluation", 85, 25, now)>>

\* _assess_ieee_2859_compliance
AssessIeee2859Compliance(ai_config, now) ==
    <<NewComplianceAssessment(ai_config, "ieee_2859_ethics",
                              "ethical_design", 80, 40, now)>>

\* _assess_generic_compliance
AssessGenericCompliance(framework, ai_config, now) ==
    <<NewComplianceAssessment(ai_config, framework \o "_general",
                              "general_compliance", 65, 35, now)>>

\* _assess_framework_compliance(framework, ai_config): the assessments, or
\* the KeyError of self.compliance_frameworks[framework]
AssessFrameworkCompliance(framework, ai_config, now) ==
    IF framework \notin DOMAIN ComplianceFrameworks THEN [raised |-> "KeyError"]
    ELSE [assessments |->
            CASE framework = "eu_ai_act"   -> AssessEuAiActCompliance(ai_config, now)
              [] framework = "gdpr"        -> AssessGdprCompliance(ai_config, now)
              [] framework = "iso_42001"   -> AssessIso42001Compliance(ai_config, now)
              [] framework = "nist_ai_rmf" -> AssessNistAiRmfCompliance(ai_config, now)
              [] framework = "ieee_2859"   -> AssessIeee2859Compliance(ai_config, now)
              [] OTHER -> AssessGenericCompliance(framework, ai_config, now)]

\* the actions _generate_priority_actions builds for the assessments of one
\* risk level
PriorityActions(assessments, risk_level, priority, action, timeline, label, effort) ==
    LET chosen == SelectSeq(assessments, LAMBDA a : a.risk_level = risk_level)
    IN  [i \in 1..Len(chosen) |->
            [priority         |-> priority,
             requirement      |-> chosen[i].requirement_id,
             action           |-> action \o chosen[i].requirement_id,
             timeline         |-> timeline,
             risk_level       |-> label,
             estimated_effort |-> effort]]

\* the medium-risk assessments that get an action: [:3]
MediumActionsKept == 3

\* _generate_priority_actions: the ranks of priority_order
PriorityOrder == [CRITICAL |-> 1, HIGH |-> 2, MEDIUM |-> 3, LOW |-> 4]

\* sorted(actions, key=priority_order[priority]): a stable sort, which keeps
\* the actions of one rank in the order they have in actions
RECURSIVE SortedByPriority(_, _)
SortedByPriority(actions, rank) ==
    IF rank > Cardinality(DOMAIN PriorityOrder) THEN <<>>
    ELSE SelectSeq(actions, LAMBDA x : PriorityOrder[x.priority] = rank)
            \o SortedByPriority(actions, rank + 1)

\* xs[:n]
Take(xs, n) == SubSeq(xs, 1, IF Len(xs) < n THEN Len(xs) ELSE n)

\* _generate_priority_actions with an action for every medium-risk assessment
GeneratePriorityActionsUncapped(assessments) ==
    LET critical == PriorityActions(assessments, "critical", "CRITICAL",
                                    "Address critical compliance gap: ",
                                    "14 days", "Critical", "High")
        high == PriorityActions(assessments, "high", "HIGH",
                                "Improve compliance: ", "30 days", "High", "Medium")
        medium == PriorityActions(Take(SelectSeq(assessments,
                                                 LAMBDA a : a.risk_level = "medium"),
                                       Len(assessments)),
                                  "medium", "MEDIUM", "Enhance compliance: ",
                                  "60 days", "Medium", "Medium")
    IN  SortedByPriority(critical \o high \o medium, 1)

\* _generate_priority_actions(assessments)
GeneratePriorityActions(assessments) ==
    LET critical == PriorityActions(assessments, "critical", "CRITICAL",
                                    "Address critical compliance gap: ",
                                    "14 days", "Critical", "High")
        high == PriorityActions(assessments, "high", "HIGH",
                                "Improve compliance: ", "30 days", "High", "Medium")
        medium == PriorityActions(Take(SelectSeq(assessments,
                                                 LAMBDA a : a.risk_level = "medium"),
                                       MediumActionsKept),
                                  "medium", "MEDIUM", "Enhance compliance: ",
                                  "60 days", "Medium", "Medium")
    IN  SortedByPriority(critical \o high \o medium, 1)

\* framework_score: sum(a.score for a in framework_assessments) /
\* len(framework_assessments), an int divided by an int
FrameworkScore(framework_assessments) ==
    F64Ratio(IntSum([i \in 1..Len(framework_assessments) |->
                        framework_assessments[i].score],
                    1..Len(framework_assessments)),
             Len(framework_assessments))

\* assessments after the first n frameworks of the first loop
RECURSIVE AssessmentsAfter(_, _, _, _)
AssessmentsAfter(frameworks, ai_config, now, n) ==
    IF n = 0 THEN <<>>
    ELSE AssessmentsAfter(frameworks, ai_config, now, n - 1)
            \o AssessFrameworkCompliance(frameworks[n], ai_config, now).assessments

\* weighted_score after the first n frameworks of the second loop: it starts
\* at 0 and score * weight is added framework by framework
RECURSIVE WeightedScoreAfter(_, _, _)
WeightedScoreAfter(frameworks, framework_scores, n) ==
    IF n = 0 THEN F64Zero
    ELSE F64Add(WeightedScoreAfter(frameworks, framework_scores, n - 1),
                F64Mul(framework_scores[frameworks[n]],
                       ComplianceWeight(frameworks[n])))

\* total_weight after the first n frameworks of the second loop
RECURSIVE TotalWeightAfter(_, _)
TotalWeightAfter(frameworks, n) ==
    IF n = 0 THEN F64Zero
    ELSE F64Add(TotalWeightAfter(frameworks, n - 1),
                ComplianceWeight(frameworks[n]))

\* framework_scores after the first loop
FrameworkScores(frameworks, ai_config, now) ==
    [f \in Elems(frameworks) |->
        FrameworkScore(AssessFrameworkCompliance(f, ai_config, now).assessments)]

\* overall_score: weighted_score / total_weight if total_weight > 0 else 0
OverallScore(weighted_score, total_weight) ==
    IF total_weight # F64Zero THEN F64Div(weighted_score, total_weight)
    ELSE F64Zero

\* critical_gaps: len([a for a in all_assessments if a.risk_level == CRITICAL])
CriticalGaps(assessments) ==
    Cardinality({i \in 1..Len(assessments) : assessments[i].risk_level = "critical"})

\* the SystemComplianceReport that assess_system_compliance builds from what
\* its loops computed
SystemComplianceReport(ai_system_config, frameworks, now, assessments, framework_scores, overall_score) ==
    [system_id |-> Get(ai_system_config, "system_id", "unknown"),
     system_name |-> Get(ai_system_config, "name", "AI System"),
     assessment_date |-> IsoFormat(now),
     frameworks_assessed |-> frameworks,
     overall_compliance_score |-> overall_score,
     framework_scores |-> framework_scores,
     compliance_status |-> DetermineComplianceStatus(overall_score),
     critical_gaps |-> CriticalGaps(assessments),
     high_priority_actions |-> GeneratePriorityActions(assessments),
     certification_ready |->
         F64Leq(F64FromInt(85), overall_score) /\ CriticalGaps(assessments) = 0,
     assessments |-> assessments]

\* the frameworks argument of assess_system_compliance, args being the
\* arguments passed
FrameworksOf(args) ==
    IF "frameworks" \in DOMAIN args THEN args.frameworks ELSE DefaultFrameworks

\* assess_system_compliance on the frameworks at instant now, every one of
\* which _assess_framework_compliance accepts
AssessAcceptedFrameworks(ai_system_config, frameworks, now, framework_scores) ==
    SystemComplianceReport(
        ai_system_config, frameworks, now,
        AssessmentsAfter(frameworks, ai_system_config, now, Len(frameworks)),
        framework_scores,
        OverallScore(WeightedScoreAfter(frameworks, framework_scores, Len(frameworks)),
                     TotalWeightAfter(frameworks, Len(frameworks))))

\* assess_system_compliance(ai_system_config, frameworks) at instant now,
\* args being the arguments passed: the report, or the KeyError that
\* _assess_framework_compliance raises in the first loop.  The clock is read
\* once.
AssessSystemCompliance(args, now) ==
    IF \E i \in 1..Len(FrameworksOf(args)) :
          FrameworksOf(args)[i] \notin DOMAIN ComplianceFrameworks
    THEN [raised |-> "KeyError"]
    ELSE AssessAcceptedFrameworks(
             args.ai_system_config, FrameworksOf(args), now,
             FrameworkScores(FrameworksOf(args), args.ai_system_config, now))
---------------------------------------------------------------------------
(* The compliance checker driven by a caller *)

\* the configuration keys that the framework assessments read
ComplianceControls ==
    {"risk_assessment_complete", "quality_management_system", "human_oversight",
     "explainable_ai", "legal_basis_documented",
     "data_subject_rights_implemented", "privacy_by_design",
     "ai_management_system", "performance_monitoring",
     "ai_governance_framework", "bias_evaluation", "ethical_design",
     "general_compliance"}

\* a configuration with every compliance control in place
AllControls == [k \in ComplianceControls |-> TRUE]

\* a configuration with the controls of S in place and the others absent
Controls(S) == [k \in S |-> TRUE]

\* a configuration with three controls in place, one with none, and one with
\* explainability only
ThreeControls ==
    Controls({"legal_basis_documented", "performance_monitoring", "bias_evaluation"})
NoControls == EmptyDict
ExplainableOnly == Controls({"explainable_ai"})

\* every order of a list of up to three members
Orders(xs) ==
    {p \in [1..Len(xs) -> Elems(xs)] : \A x \in Elems(xs) : \E i \in 1..Len(xs) : p[i] = x}

\* arguments of assess_system_compliance: three frameworks in every order,
\* the default frameworks, one framework, all five with a specific
\* assessment, none, frameworks without a specific assessment, and one
\* framework listed four times
AssessmentInputs ==
    {[ai_system_config |-> ThreeControls, frameworks |-> p] :
        p \in Orders(<<"eu_ai_act", "gdpr", "iso_42001">>)}
      \cup {[ai_system_config |-> AllControls],
            [ai_system_config |-> AllControls, frameworks |-> <<"gdpr">>],
            [ai_system_config |-> AllControls,
             frameworks |-> SubSeq(RegulatoryFramework, 1, 5)],
            [ai_system_config |-> NoControls],
            [ai_system_config |-> NoControls, frameworks |-> <<>>],
            [ai_system_config |-> AllControls, frameworks |-> <<"ccpa">>],
            [ai_system_config |-> NoControls,
             frameworks |-> <<"eu_ai_act", "hipaa">>],
            [ai_system_config |-> ExplainableOnly,
             frameworks |-> <<"eu_ai_act", "eu_ai_act", "eu_ai_act", "eu_ai_act">>]}

\* the largest number of reports in assessment_history
MaxHistory == 2

\* a caller runs assess_system_compliance; the clock stands still in this
\* specification.  A report is appended to the history unless the call raised.
AssessSystemComplianceCall(args) ==
    /\ Len(assessment_history) < MaxHistory
    /\ lastCall' = [op |-> "assess_system_compliance", args |-> args,
                    result |-> AssessSystemCompliance(args, clock)]
    /\ assessment_history' =
          IF "raised" \in DOMAIN lastCall'.result THEN assessment_history
          ELSE Append(assessment_history, lastCall'.result)
    /\ UNCHANGED <<audit_events, system_registry, encryption_key, clock, nextUuid,
                   tamper, pc, local, requirements>>

NextComply ==
    \E args \in AssessmentInputs : AssessSystemComplianceCall(args)

SpecComply == Init /\ [][NextComply]_vars

---------------------------------------------------------------------------
(* Claims about the compliance checker *)

\* whether no member of the list xs occurs twice
Distinct(xs) == \A i, j \in 1..Len(xs) : xs[i] = xs[j] => i = j

\* what C21 compares of the outcome of a call: the aggregated fields of the
\* report, or the exception raised
Aggregated(outcome) ==
    IF "raised" \in DOMAIN outcome THEN outcome
    ELSE [overall_compliance_score |-> outcome.overall_compliance_score,
          framework_scores         |-> outcome.framework_scores,
          compliance_status        |-> outcome.compliance_status,
          critical_gaps            |-> outcome.critical_gaps]

\* C21: a call of assess_system_compliance with a list of distinct frameworks
\* returns the same overall_compliance_score, framework_scores,
\* compliance_status and critical_gaps count as the call with the same
\* configuration and the same frameworks in any other order.
C21_OrderIndependent ==
    (/\ lastCall.op = "assess_system_compliance"
     /\ "frameworks" \in DOMAIN lastCall.args
     /\ Distinct(lastCall.args.frameworks)) =>
        \A p \in Orders(lastCall.args.frameworks) :
            Aggregated(AssessSystemCompliance(
                          [lastCall.args EXCEPT !.frameworks = p], clock))
              = Aggregated(lastCall.result)

\* the frameworks that _assess_framework_compliance has a method for
SpecificFrameworks ==
    {"eu_ai_act", "gdpr", "iso_42001", "nist_ai_rmf", "ieee_2859"}

\* C23: assess_system_compliance accepts every member of RegulatoryFramework:
\* no call raises, and a framework without a specific implementation is
\* scored by one generic assessment with score 65 or 35 and has its entry in
\* framework_scores.
C23_EveryFrameworkAccepted ==
    lastCall.op = "assess_system_compliance" =>
        /\ "raised" \notin DOMAIN lastCall.result
        /\ \A f \in Elems(FrameworksOf(lastCall.args)) \ SpecificFrameworks :
              /\ f \in DOMAIN lastCall.result.framework_scores
              /\ \E i \in 1..Len(lastCall.result.assessments) :
                    /\ lastCall.result.assessments[i].requirement_id = f \o "_general"
                    /\ lastCall.result.assessments[i].score \in {65, 35}

---------------------------------------------------------------------------
(* GDPRAIComplianceChecker
   (compliance_automation/gdpr_ai_compliance_checker.py) *)

\* class GDPRPrinciple: the values of its members, in definition order
GDPRPrinciple ==
    <<"lawfulness", "fairness", "transparency", "purpose_limitation",
      "data_minimisation", "accuracy", "storage_limitation", "security",
      "accountability">>

\* _load_gdpr_principles: the assessment_criteria of each principle the
\* dictionary has an entry for
GdprPrinciples ==
    [lawfulness |->
        [legal_basis_identified |-> 30, basis_appropriateness |-> 25,
         documentation_quality |-> 25, communication_clarity |-> 20],
     fairness |->
        [bias_testing |-> 35, fairness_metrics |-> 30,
         discrimination_prevention |-> 25, outcome_monitoring |-> 10],
     transparency |->
        [privacy_notice_quality |-> 30, algorithmic_explanations |-> 35,
         decision_logic_clarity |-> 25, accessibility |-> 10],
     purpose_limitation |->
        [purpose_specification |-> 40, compatibility_assessment |-> 35,
         scope_controls |-> 25],
     data_minimisation |->
        [necessity_assessment |-> 40, feature_justification |-> 35,
         regular_review |-> 25],
     accuracy |->
        [quality_controls |-> 35, accuracy_monitoring |-> 30,
         correction_procedures |-> 25, update_mechanisms |-> 10]]

\* _load_compliance_thresholds
ComplianceThresholds ==
    [excellent |-> 90, good |-> 75, acceptable |-> 60, needs_improvement |-> 40,
     non_compliant |-> 0]

\* met if ai_config.get(key) is true, unmet if not
ScoreIf(ai_config, key, met, unmet) ==
    IF Truthy(ai_config, key) THEN met ELSE unmet

\* _assess_principle_compliance(principle, ai_config): the score, or the
\* KeyError of self.gdpr_principles[principle]
AssessPrincipleCompliance(principle, ai_config) ==
    LET criteria == GdprPrinciples[principle]
        legal_basis_score == ScoreIf(ai_config, "legal_basis", 85, 20)
        documentation_score == ScoreIf(ai_config, "legal_documentation", 80, 30)
        communication_score == ScoreIf(ai_config, "privacy_notice", 75, 25)
        bias_testing_score == ScoreIf(ai_config, "bias_testing", 90, 10)
        fairness_metrics_score == ScoreIf(ai_config, "fairness_monitoring", 85, 15)
        discrimination_score == ScoreIf(ai_config, "discrimination_controls", 80, 20)
        privacy_notice_score == ScoreIf(ai_config, "privacy_notice", 85, 25)
        explanation_score == ScoreIf(ai_config, "explainable_ai", 70, 30)
        logic_clarity_score == ScoreIf(ai_config, "decision_logic_docs", 75, 35)
        total_score ==
            CASE principle = "lawfulness" ->
                    Rat(legal_basis_score * criteria.legal_basis_identified
                          + legal_basis_score * criteria.basis_appropriateness
                          + documentation_score * criteria.documentation_quality
                          + communication_score * criteria.communication_clarity,
                        100)
              [] principle = "fairness" ->
                    Rat(bias_testing_score * criteria.bias_testing
                          + fairness_metrics_score * criteria.fairness_metrics
                          + discrimination_score * criteria.discrimination_prevention
                          + 70 * criteria.outcome_monitoring,
                        100)
              [] principle = "transparency" ->
                    Rat(privacy_notice_score * criteria.privacy_notice_quality
                          + explanation_score * criteria.algorithmic_explanations
                          + logic_clarity_score * criteria.decision_logic_clarity
                          + 80 * criteria.accessibility,
                        100)
              [] OTHER -> Rat(ScoreIf(ai_config, "gdpr_compliant", 70, 45), 1)
    IN  IF principle \notin DOMAIN GdprPrinciples
        THEN [raised |-> "KeyError", key |-> principle]
        ELSE [score |-> RatMin(Rat(100, 1), RatMax(Rat(0, 1), total_score))]

\* GDPRAIComplianceChecker._determine_compliance_status(overall_score)
GdprComplianceStatus(overall_score) ==
    IF RatLeq(Rat(ComplianceThresholds.excellent, 1), overall_score)
    THEN "Excellent Compliance"
    ELSE IF RatLeq(Rat(ComplianceThresholds.good, 1), overall_score)
    THEN "Good Compliance"
    ELSE IF RatLeq(Rat(ComplianceThresholds.acceptable, 1), overall_score)
    THEN "Acceptable Compliance"
    ELSE IF RatLeq(Rat(ComplianceThresholds.needs_improvement, 1), overall_score)
    THEN "Needs Improvement"
    ELSE "Non-Compliant"

\* GDPRAIComplianceChecker.assess_ai_system_compliance(ai_system_config): the
\* loop over GDPRPrinciple assesses the principles in definition order and
\* the first KeyError ends the call; otherwise the result holds the scores,
\* their mean and the status.  The legal basis, the data subject rights, the
\* risk level, the recommendations and the action items are left out of the
\* result.
AssessAISystemCompliance(ai_system_config) ==
    LET n == Len(GDPRPrinciple)
        assessed == [i \in 1..n |->
                        AssessPrincipleCompliance(GDPRPrinciple[i], ai_system_config)]
        failed == {i \in 1..n : "raised" \in DOMAIN assessed[i]}
        principle_scores ==
            [p \in Elems(GDPRPrinciple) |->
                AssessPrincipleCompliance(p, ai_system_config).score]
        overall_score ==
            RatDiv(RatSum([i \in 1..n |-> assessed[i].score], 1..n), Rat(n, 1))
    IN  IF failed # {}
        THEN assessed[CHOOSE i \in failed : \A j \in failed : i <= j]
        ELSE [overall_score     |-> overall_score,
              compliance_status |-> GdprComplianceStatus(overall_score),
              principle_scores  |-> principle_scores]

\* the configuration keys that _assess_principle_compliance reads
GdprControls ==
    {"legal_basis", "legal_documentation", "privacy_notice", "bias_testing",
     "fairness_monitoring", "discrimination_controls", "explainable_ai",
     "decision_logic_docs", "gdpr_compliant"}

\* configurations: no control, one control, all but one, and all controls
GdprConfigs ==
    {Controls(S) : S \in {T \in SUBSET GdprControls :
                             \/ Cardinality(T) <= 1
                             \/ Cardinality(T) >= Cardinality(GdprControls) - 1}}

\* a caller runs GDPRAIComplianceChecker.assess_ai_system_compliance
AssessAISystemComplianceCall(ai_system_config) ==
    /\ lastCall' = [op |-> "assess_ai_system_compliance",
                    ai_system_config |-> ai_system_config,
                    result |-> AssessAISystemCompliance(ai_system_config)]
    /\ UNCHANGED <<audit_events, system_registry, encryption_key, clock, nextUuid,
                   tamper, pc, local, requirements, assessment_history>>

\* a caller runs _assess_principle_compliance
AssessPrincipleComplianceCall(principle, ai_config) ==
    /\ lastCall' = [op |-> "_assess_principle_compliance",
                    principle |-> principle,
                    ai_config |-> ai_config,
                    result |-> AssessPrincipleCompliance(principle, ai_config)]
    /\ UNCHANGED <<audit_events, system_registry, encryption_key, clock, nextUuid,
                   tamper, pc, local, requirements, assessment_history>>

NextGdpr ==
    \/ \E ai_system_config \in GdprConfigs :
          AssessAISystemComplianceCall(ai_system_config)
    \/ \E principle \in Elems(GDPRPrinciple), ai_config \in GdprConfigs :
          AssessPrincipleComplianceCall(principle, ai_config)

SpecGdpr == Init /\ [][NextGdpr]_vars

\* C22: every call of GDPRAIComplianceChecker.assess_ai_system_compliance
\* completes without raising and returns a result whose principle_scores has
\* one entry within [0, 100] for each of the nine GDPRPrinciple members, with
\* overall_score equal to their mean.
C22_GdprAssessmentCompletes ==
    lastCall.op = "assess_ai_system_compliance" =>
        /\ "raised" \notin DOMAIN lastCall.result
        /\ DOMAIN lastCall.result.principle_scores = Elems(GDPRPrinciple)
        /\ \A p \in Elems(GDPRPrinciple) :
              RatWithin(lastCall.result.principle_scores[p], 0, 100)
        /\ lastCall.result.overall_score =
              RatDiv(RatSum(lastCall.result.principle_scores, Elems(GDPRPrinciple)),
                     Rat(Cardinality(Elems(GDPRPrinciple)), 1))

---------------------------------------------------------------------------
(* Further claims about the gap analyzer *)

\* whether an assessment gives some requirement of the analyzer a status that
\* is no ComplianceStatus value
HasInvalidStatus(assessment) ==
    \E i \in 1..Len(IsoRequirements) :
        /\ IsoRequirements[i].requirement_id \in DOMAIN assessment
        /\ Get(assessment[IsoRequirements[i].requirement_id], "status",
               "not_assessed") \notin GapComplianceStatus

\* C24: a call of conduct_gap_analysis whose current_state_assessment holds a
\* status outside the ComplianceStatus enumeration fails, and it leaves the
\* current_status and gap_description of every requirement as they were
\* before the call.
C24_InvalidStatusNoMutation ==
    (/\ lastCall.op = "conduct_gap_analysis"
     /\ HasInvalidStatus(lastCall.current_state_assessment)) =>
        /\ "raised" \in DOMAIN lastCall.result
        /\ requirements = lastCall.before

---------------------------------------------------------------------------
(* Further claims about the scoring engine *)

\* the positions in the library of the factors whose evaluated score for the
\* system is at least 4.0
CriticalPositions(ai_system) ==
    {i \in 1..Len(AllRiskFactors) :
        EvaluateRiskFactor(ai_system, AllRiskFactors[i]) >= 4}

\* C25: critical_factors holds exactly the names of the factors whose
\* evaluated score for the system is >= 4.0, in library order; risk_factors
\* lists every factor of the library exactly once; and the critical factors
\* are the same under every custom_weights.
C25_CriticalFactors ==
    lastCall.op = "assess_ai_system_risk" =>
        LET critical == CriticalPositions(lastCall.ai_system)
            critical_factors == lastCall.result.critical_factors
            risk_factors == lastCall.result.risk_factors
        IN  /\ Len(critical_factors) = Cardinality(critical)
            /\ \A i \in critical :
                  critical_factors[Cardinality({j \in critical : j <= i})]
                     = AllRiskFactors[i].name
            /\ Len(risk_factors) = Len(AllRiskFactors)
            /\ \A i \in 1..Len(AllRiskFactors) :
                  Cardinality({j \in 1..Len(risk_factors) :
                                  risk_factors[j] = AllRiskFactors[i].factor_id}) = 1
            /\ \A custom_weights \in CustomWeightInputs :
                  AssessAISystemRisk(lastCall.ai_system, custom_weights,
                                     clock).critical_factors = critical_factors

\* an assessment under all-zero custom weights of a system with minimal
\* oversight: the oversight factor, scored exactly 4, is critical, and the
\* accuracy factor, scored 3, is not
C25_Witness ==
    /\ lastCall.op = "assess_ai_system_risk"
    /\ lastCall.custom_weights = ZeroWeights
    /\ lastCall.ai_system = With(BaseSystem, "human_oversight", "minimal")
    /\ InList("Human Oversight and Control", lastCall.result.critical_factors)
    /\ ~InList("Model Accuracy and Performance", lastCall.result.critical_factors)

\* C29: with the default weights, the system description with the best
\* value of every evaluated field (accuracy of at least 0.85, full oversight,
\* compliant status, bias score of at most 0.5) is assessed as Low, so that
\* each of the four risk levels is the level of some assessment.
C29_BestSystemIsLow ==
    (/\ lastCall.op = "assess_ai_system_risk"
     /\ lastCall.custom_weights = EmptyDict
     /\ lastCall.ai_system = FullSystem) =>
        lastCall.result.risk_level = "Low"

---------------------------------------------------------------------------
(* Further claims about the compliance checker *)

\* the positions of xs whose member satisfies field = value
PositionsWith(xs, field, value) == {i \in 1..Len(xs) : xs[i][field] = value}

\* the actions of a priority that name a requirement, and the assessments of
\* a risk level that are about it
ActionsFor(report, priority, requirement_id) ==
    {i \in PositionsWith(report.high_priority_actions, "priority", priority) :
        report.high_priority_actions[i].requirement = requirement_id}
AssessmentsFor(report, risk_level, requirement_id) ==
    {i \in PositionsWith(report.assessments, "risk_level", risk_level) :
        report.assessments[i].requirement_id = requirement_id}

\* C26: high_priority_actions is ordered CRITICAL, HIGH, MEDIUM; it holds
\* one action per assessment with critical risk and one per assessment with
\* high risk, at most three MEDIUM actions, each for an assessment with medium
\* risk, and none for low or negligible risk; critical_gaps is the number of
\* CRITICAL actions.
C26_PriorityActions ==
    (lastCall.op = "assess_system_compliance" /\ "raised" \notin DOMAIN lastCall.result) =>
        LET report == lastCall.result
            actions == report.high_priority_actions
            requirement_ids == {report.assessments[i].requirement_id :
                                   i \in 1..Len(report.assessments)}
        IN  /\ \A i, j \in 1..Len(actions) :
                  i < j => PriorityOrder[actions[i].priority]
                              <= PriorityOrder[actions[j].priority]
            /\ \A i \in 1..Len(actions) :
                  /\ actions[i].priority \in {"CRITICAL", "HIGH", "MEDIUM"}
                  /\ actions[i].requirement \in requirement_ids
            /\ \A r \in requirement_ids :
                  /\ Cardinality(ActionsFor(report, "CRITICAL", r))
                        = Cardinality(AssessmentsFor(report, "critical", r))
                  /\ Cardinality(ActionsFor(report, "HIGH", r))
                        = Cardinality(AssessmentsFor(report, "high", r))
                  /\ Cardinality(ActionsFor(report, "MEDIUM", r))
                        <= Cardinality(AssessmentsFor(report, "medium", r))
            /\ Cardinality(PositionsWith(actions, "priority", "MEDIUM")) <= 3
            /\ report.critical_gaps
                  = Cardinality(PositionsWith(actions, "priority", "CRITICAL"))

\* a report with four medium-risk assessments, of which three get an action,
\* behind CRITICAL and HIGH actions
C26_Witness ==
    /\ lastCall.op = "assess_system_compliance"
    /\ "raised" \notin DOMAIN lastCall.result
    /\ Cardinality(PositionsWith(lastCall.result.assessments, "risk_level", "medium")) = 4
    /\ Cardinality(PositionsWith(lastCall.result.high_priority_actions,
                                 "priority", "MEDIUM")) = 3
    /\ lastCall.result.critical_gaps = 4
    /\ lastCall.result.high_priority_actions[1].priority = "CRITICAL"
    /\ lastCall.result.high_priority_actions[5].priority = "HIGH"
    /\ lastCall.result.high_priority_actions[13].priority = "MEDIUM"

\* C28: certification_ready of a report is true exactly when
\* overall_compliance_score >= 85 and no assessment has critical risk, and a
\* configuration with every compliance control in place is certification
\* ready.
C28_CertificationReady ==
    (lastCall.op = "assess_system_compliance" /\ "raised" \notin DOMAIN lastCall.result) =>
        LET report == lastCall.result
        IN  /\ report.certification_ready
                  <=> (/\ F64Leq(F64FromInt(85), report.overall_compliance_score)
                       /\ PositionsWith(report.assessments, "risk_level", "critical") = {})
            /\ lastCall.args.ai_system_config = AllControls
                  => report.certification_ready

---------------------------------------------------------------------------
(* Further claims about the audit trail builder *)

\* the stored events of a system
EventsOfSystem(system_id) ==
    {i \in 1..Len(audit_events) : audit_events[i].system_id = system_id}

\* C27: for every registered system s, system_registry[s].audit_events_count
\* is the number of stored events whose system_id is s, the registration
\* event included, whatever the order of log_event and register_ai_system
\* calls: events logged for s before its registration, and a second
\* registration of s, included.
C27_RegistryCountsEvents ==
    \A s \in DOMAIN system_registry :
        system_registry[s].audit_events_count = Cardinality(EventsOfSystem(s))

\* the builder used by one caller who logs events, registers systems and
\* asks for reports
NextReport ==
    \/ \E d \in Drafts, t \in NowChoices(clock) :
          Len(audit_events) < MaxEvents /\ LogEvent(d, t)
    \/ \E r \in Registrations, t1 \in NowChoices(clock) : \E t2 \in NowChoices(t1) :
          Len(audit_events) < MaxEvents /\ RegisterAISystem(r, t1, t2)
    \/ \E fw \in ReportFrameworks, p \in ReportPeriods : ReportCall(fw, p[1], p[2])

SpecReport == Init /\ [][NextReport]_vars

\* the report on a framework over the default period, as generated when the
\* stored events are events and the instant is now
ReportOn(events, framework, now) ==
    GenerateComplianceReport(events, framework, NoDate, NoDate, now)

\* the default period at the instant now contains every event
WindowHoldsAll(events, now) ==
    \A i \in 1..Len(events) :
        now - NinetyDays <= events[i].timestamp /\ events[i].timestamp <= now

\* the report after is no worse than the report before
NoWorse(before, after) ==
    /\ RatLeq(before.compliance_summary.compliance_score,
              after.compliance_summary.compliance_score)
    /\ before.compliance_summary.required_events_covered
          <= after.compliance_summary.required_events_covered
    /\ before.compliance_summary.total_audit_events
          <= after.compliance_summary.total_audit_events
    /\ after.missing_requirements \subseteq before.missing_requirements

\* the compliance_score of the report is within [0,100]
ScoreInRange(report) ==
    /\ RatLeq(Rat(0, 1), report.compliance_summary.compliance_score)
    /\ RatLeq(report.compliance_summary.compliance_score, Rat(100, 1))

\* C30: for every framework, while the reporting period contains all events,
\* the compliance_score of generate_compliance_report is within [0,100], and
\* no step that stores a further event makes the report worse: the score,
\* required_events_covered and total_audit_events of the report after the
\* step are >= those before it and missing_requirements only shrinks (so each
\* later report is no worse than every earlier one).
C30_ScoreNeverDecreases ==
    /\ [](\A framework \in ComplianceFramework :
            WindowHoldsAll(audit_events, clock) =>
                ScoreInRange(ReportOn(audit_events, framework, clock)))
    /\ [][\A framework \in ComplianceFramework :
            (/\ audit_events' # audit_events
             /\ WindowHoldsAll(audit_events, clock)
             /\ WindowHoldsAll(audit_events', clock')) =>
                NoWorse(ReportOn(audit_events, framework, clock),
                        ReportOn(audit_events', framework, clock'))]_vars

\* a GDPR report made after at least two events, the last of which covered a
\* further required event type: the score is above the one a report made
\* before that event had, and below 100
C30_Witness ==
    /\ lastCall.op = "generate_compliance_report"
    /\ lastCall.args[1] = "gdpr"
    /\ Len(audit_events) >= 2
    /\ WindowHoldsAll(audit_events, clock)
    /\ lastCall.result = ReportOn(audit_events, "gdpr", clock)
    /\ LET earlier == ReportOn(SubSeq(audit_events, 1, Len(audit_events) - 1),
                               "gdpr", clock)
       IN  /\ earlier.compliance_summary.required_events_covered
                 < lastCall.result.compliance_summary.required_events_covered
           /\ earlier.compliance_summary.total_audit_events >= 1
           /\ RatLess(earlier.compliance_summary.compliance_score,
                      lastCall.result.compliance_summary.compliance_score)
           /\ RatLess(lastCall.result.compliance_summary.compliance_score, Rat(100, 1))

====
